---- MODULE Spec2Model ----
(***************************************************************************)
(* A model of mcpsock's FastMCPWebSocketRouter (src/src/mcpsock/server.py): *)
(* the handler registry, the connection manager, dispatch_message and the  *)
(* per-connection session handle_websocket; and of its StandaloneClient     *)
(* (src/src/mcpsock/client.py): connect, send_request and disconnect.       *)
(*                                                                         *)
(* Python values are modelled as follows.  None is the string "None".  A    *)
(* dict is a function whose domain is its key set.  A raw text frame is a   *)
(* record that says whether it is JSON text and, if so, which value it      *)
(* denotes; json_loads is the only way from a frame to that value.  A JSON  *)
(* id is kept as its JSON text ("7", "0", "null"), and the JSON text null    *)
(* parses to None.  An f-string is the tuple of its parts.                  *)
(*                                                                         *)
(* Coroutines are cut at their awaits.  The awaits of a session are         *)
(* websocket.accept(), the next element of websocket.iter_text(), a user    *)
(* handler, and the ON_DISCONNECT handler; the default handlers contain no  *)
(* await and run to completion inside the step that calls them.  An await   *)
(* of websocket.send_json is folded into the step that makes it, with its   *)
(* outcome (sent, or an exception) chosen by the transport.                 *)
(***************************************************************************)
EXTENDS Integers, Sequences, FiniteSets, TLC

\* ------------------------------------------------------------------ bounds

\* Number of register_* calls made after construction: while sessions run,
\* and in the routing specification.
MaxRegs == 1
MaxDispatchRegs == 2

\* Number of requests a client sends (its message_id counter stops there).
MaxRequests == 2

\* The connection handles (WebSocket objects) the environment opens.
Conns == {"ws1", "ws2"}

\* ------------------------------------------------------------------ values

None == "None"
EmptyDict == <<>>

\* dict.get(key, default)
Get(d, k, default) == IF k \in DOMAIN d THEN d[k] ELSE default

\* An assignment that starts the dict afresh.
DictSet_Fresh(d, k, v) == [x \in {k} |-> v]

\* d[k] = v on a dict
DictSet(d, k, v) == [x \in (DOMAIN d) \cup {k} |-> IF x = k THEN v ELSE d[x]]

\* del d[k]
DictDel(d, k) == [x \in (DOMAIN d) \ {k} |-> d[x]]

\* The identifiers uuid.uuid4() can return; one per connection handle is
\* enough, since every handle is accepted at most once.
UUIDs == {"uuid-a", "uuid-b"}

\* Method names of the messages and of the registrations.
SystemNames == {"initialize", "list_tools", "list_resources", "list_prompts"}
ToolPaths == {"/tools/x"}
ResourcePaths == {"/resources/r"}
PromptPaths == {"/prompts/p"}
PlainNames == {"foo", "on_disconnect", ""}
MethodNames == SystemNames \cup ToolPaths \cup ResourcePaths \cup PromptPaths \cup PlainNames

\* str.startswith over the method names above.
StartsWith(s, prefix) ==
    CASE prefix = "/tools/" -> s \in ToolPaths
      [] prefix = "/resources/" -> s \in ResourcePaths
      [] prefix = "/prompts/" -> s \in PromptPaths
      [] OTHER -> FALSE

\* ---------------------------------------------------------------- handlers

\* The handlers the router registers for itself in __init__.
DefaultHandlers == {"_default_initialize_handler", "_default_list_tools_handler",
                    "_default_list_resources_handler", "_default_list_prompts_handler",
                    "_default_on_disconnect_handler"}

\* Handlers a caller registers, named by what they do when awaited: return
\* {"echo": params}, raise ValueError, or raise RuntimeError.
UserHandlers == {"echo_handler", "value_error_handler", "runtime_error_handler"}

Handlers == DefaultHandlers \cup UserHandlers

\* ------------------------------------------------------------------- state

VARIABLES
    \* FastMCPWebSocketRouter: the handler registry
    tool_handlers, resource_handlers, prompt_handlers, method_handlers,
    fallback_handler, initialize_handler, list_tools_handler,
    list_resources_handler, list_prompts_handler, on_disconnect_handler,
    \* FastMCPWebSocketRouter: connections
    active_connections, enable_connection_tracking, connection_manager,
    \* the attribute connection_id that add_connection sets on a WebSocket
    connection_id,
    \* the identifiers uuid4 has returned so far
    issued,
    \* position of each session's coroutine, and its local variables
    pc, running,
    \* observations: what was invoked and sent, counted per connection
    regs, accepted, obs, last,
    \* StandaloneClient: its attributes, the call it is in, and what it has
    \* sent and returned
    client,
    \* the connection between the client and the router: the text frames on
    \* their way, in the order they were sent
    link

registryVars == <<tool_handlers, resource_handlers, prompt_handlers, method_handlers,
                  fallback_handler, initialize_handler, list_tools_handler,
                  list_resources_handler, list_prompts_handler, on_disconnect_handler>>

trackingVars == <<enable_connection_tracking, connection_manager, connection_id, issued>>

sessionVars == <<active_connections, pc, running, accepted, obs, last>>

routerVars == <<registryVars, trackingVars, sessionVars, regs>>

vars == <<routerVars, client, link>>

\* ------------------------------------------------------- ConnectionManager

\* A manager made although tracking is disabled.
NoConnectionManager_Made == [connections |-> EmptyDict, connection_data |-> EmptyDict,
                             none |-> TRUE]

\* self.connection_manager is None when tracking is disabled.
NoConnectionManager == [none |-> TRUE]

\* ConnectionManager.__init__
NewConnectionManager == [connections |-> EmptyDict, connection_data |-> EmptyDict]

\* An add_connection that makes no data bag.
CM_add_connection_NoBag(cm, websocket, id) ==
    [connections |-> DictSet(cm.connections, id, websocket),
     connection_data |-> cm.connection_data]

\* ConnectionManager.add_connection, given the identifier uuid4 returned; the
\* setattr on the websocket is in the action that calls it.
CM_add_connection(cm, websocket, id) ==
    [connections |-> DictSet(cm.connections, id, websocket),
     connection_data |-> DictSet(cm.connection_data, id, EmptyDict)]

\* A remove_connection that empties the registry.
CM_remove_connection_Clears(cm, id) ==
    IF id \in DOMAIN cm.connections
    THEN [connections |-> EmptyDict, connection_data |-> EmptyDict]
    ELSE cm

\* A remove_connection that leaves the data bag behind.
CM_remove_connection_KeepsData(cm, id) ==
    [connections |-> IF id \in DOMAIN cm.connections
                     THEN DictDel(cm.connections, id) ELSE cm.connections,
     connection_data |-> cm.connection_data]

\* ConnectionManager.remove_connection
CM_remove_connection(cm, id) ==
    [connections |-> IF id \in DOMAIN cm.connections
                     THEN DictDel(cm.connections, id) ELSE cm.connections,
     connection_data |-> IF id \in DOMAIN cm.connection_data
                         THEN DictDel(cm.connection_data, id) ELSE cm.connection_data]

\* ConnectionManager.get_connection_data
CM_get_connection_data(cm, id) == Get(cm.connection_data, id, EmptyDict)

\* A set_connection_data that makes the data bag of an unknown identifier.
CM_set_connection_data_Creates(cm, id, key, value) ==
    [cm EXCEPT !.connection_data =
        DictSet(cm.connection_data, id,
                DictSet(Get(cm.connection_data, id, EmptyDict), key, value))]

\* A set_connection_data that writes the value into every data bag.
CM_set_connection_data_AllBags(cm, id, key, value) ==
    IF id \in DOMAIN cm.connection_data
    THEN [cm EXCEPT !.connection_data =
             [i \in DOMAIN cm.connection_data |-> DictSet(cm.connection_data[i], key, value)]]
    ELSE cm

\* ConnectionManager.set_connection_data
CM_set_connection_data(cm, id, key, value) ==
    IF id \in DOMAIN cm.connection_data
    THEN [cm EXCEPT !.connection_data[id] = DictSet(@, key, value)]
    ELSE cm

\* ------------------------------------------------------- connection access

\* A lookup that gives every handle the identifier issued first.
get_connection_id_Shared(websocket) ==
    IF ~enable_connection_tracking \/ connection_id[websocket] = None
    THEN None
    ELSE CHOOSE id \in issued : TRUE

\* FastMCPWebSocketRouter.get_connection_id
get_connection_id(websocket) ==
    IF ~enable_connection_tracking THEN None ELSE connection_id[websocket]

\* FastMCPWebSocketRouter.get_connection_data(websocket, key), key given
get_connection_data(websocket, key) ==
    IF ~enable_connection_tracking \/ connection_manager = NoConnectionManager
    THEN None
    ELSE IF get_connection_id(websocket) = None
    THEN None
    ELSE Get(CM_get_connection_data(connection_manager, get_connection_id(websocket)),
             key, None)

\* --------------------------------------------------------------- resolution

\* The ValueError get_handler_for_message raises.
NoHandler(method) ==
    [handler |-> None, msg_type |-> "ValueError",
     text |-> <<"No handler registered for method: ", method>>]

Resolved(handler, msg_type) == [handler |-> handler, msg_type |-> msg_type, text |-> <<>>]

\* A lookup that keeps a namespaced path to the mapping of its namespace.
get_handler_for_message_Strict(message) ==
    LET method == Get(message, "method", "")
        namespaced == \E prefix \in {"/tools/", "/resources/", "/prompts/"} :
                          StartsWith(method, prefix)
    IN
    IF method = "initialize" /\ initialize_handler /= None
    THEN Resolved(initialize_handler, "INITIALIZE")
    ELSE IF method = "list_tools" /\ list_tools_handler /= None
    THEN Resolved(list_tools_handler, "LIST_TOOLS")
    ELSE IF method = "list_resources" /\ list_resources_handler /= None
    THEN Resolved(list_resources_handler, "LIST_RESOURCES")
    ELSE IF method = "list_prompts" /\ list_prompts_handler /= None
    THEN Resolved(list_prompts_handler, "LIST_PROMPTS")
    ELSE IF StartsWith(method, "/tools/") /\ method \in DOMAIN tool_handlers
    THEN Resolved(tool_handlers[method], "TOOL_CALL")
    ELSE IF StartsWith(method, "/resources/") /\ method \in DOMAIN resource_handlers
    THEN Resolved(resource_handlers[method], "RESOURCE_CALL")
    ELSE IF StartsWith(method, "/prompts/") /\ method \in DOMAIN prompt_handlers
    THEN Resolved(prompt_handlers[method], "PROMPT_CALL")
    ELSE IF ~namespaced /\ method \in DOMAIN method_handlers
    THEN Resolved(method_handlers[method], "METHOD_CALL")
    ELSE IF fallback_handler /= None
    THEN Resolved(fallback_handler, "UNKNOWN")
    ELSE NoHandler(method)

\* A lookup that tries the general METHOD mapping first.
get_handler_for_message_MethodFirst(message) ==
    LET method == Get(message, "method", "") IN
    IF method \in DOMAIN method_handlers
    THEN Resolved(method_handlers[method], "METHOD_CALL")
    ELSE IF method = "initialize" /\ initialize_handler /= None
    THEN Resolved(initialize_handler, "INITIALIZE")
    ELSE IF method = "list_tools" /\ list_tools_handler /= None
    THEN Resolved(list_tools_handler, "LIST_TOOLS")
    ELSE IF method = "list_resources" /\ list_resources_handler /= None
    THEN Resolved(list_resources_handler, "LIST_RESOURCES")
    ELSE IF method = "list_prompts" /\ list_prompts_handler /= None
    THEN Resolved(list_prompts_handler, "LIST_PROMPTS")
    ELSE IF StartsWith(method, "/tools/") /\ method \in DOMAIN tool_handlers
    THEN Resolved(tool_handlers[method], "TOOL_CALL")
    ELSE IF StartsWith(method, "/resources/") /\ method \in DOMAIN resource_handlers
    THEN Resolved(resource_handlers[method], "RESOURCE_CALL")
    ELSE IF StartsWith(method, "/prompts/") /\ method \in DOMAIN prompt_handlers
    THEN Resolved(prompt_handlers[method], "PROMPT_CALL")
    ELSE IF fallback_handler /= None
    THEN Resolved(fallback_handler, "UNKNOWN")
    ELSE NoHandler(method)

\* A lookup that knows the name on_disconnect as the name of a system method.
get_handler_for_message_RoutesDisconnect(message) ==
    LET method == Get(message, "method", "") IN
    IF method = "initialize" /\ initialize_handler /= None
    THEN Resolved(initialize_handler, "INITIALIZE")
    ELSE IF method = "list_tools" /\ list_tools_handler /= None
    THEN Resolved(list_tools_handler, "LIST_TOOLS")
    ELSE IF method = "list_resources" /\ list_resources_handler /= None
    THEN Resolved(list_resources_handler, "LIST_RESOURCES")
    ELSE IF method = "list_prompts" /\ list_prompts_handler /= None
    THEN Resolved(list_prompts_handler, "LIST_PROMPTS")
    ELSE IF method = "on_disconnect" /\ on_disconnect_handler /= None
    THEN Resolved(on_disconnect_handler, "ON_DISCONNECT")
    ELSE IF StartsWith(method, "/tools/") /\ method \in DOMAIN tool_handlers
    THEN Resolved(tool_handlers[method], "TOOL_CALL")
    ELSE IF StartsWith(method, "/resources/") /\ method \in DOMAIN resource_handlers
    THEN Resolved(resource_handlers[method], "RESOURCE_CALL")
    ELSE IF StartsWith(method, "/prompts/") /\ method \in DOMAIN prompt_handlers
    THEN Resolved(prompt_handlers[method], "PROMPT_CALL")
    ELSE IF method \in DOMAIN method_handlers
    THEN Resolved(method_handlers[method], "METHOD_CALL")
    ELSE IF fallback_handler /= None
    THEN Resolved(fallback_handler, "UNKNOWN")
    ELSE NoHandler(method)

\* FastMCPWebSocketRouter.get_handler_for_message
get_handler_for_message(message) ==
    LET method == Get(message, "method", "") IN
    IF method = "initialize" /\ initialize_handler /= None
    THEN Resolved(initialize_handler, "INITIALIZE")
    ELSE IF method = "list_tools" /\ list_tools_handler /= None
    THEN Resolved(list_tools_handler, "LIST_TOOLS")
    ELSE IF method = "list_resources" /\ list_resources_handler /= None
    THEN Resolved(list_resources_handler, "LIST_RESOURCES")
    ELSE IF method = "list_prompts" /\ list_prompts_handler /= None
    THEN Resolved(list_prompts_handler, "LIST_PROMPTS")
    ELSE IF StartsWith(method, "/tools/") /\ method \in DOMAIN tool_handlers
    THEN Resolved(tool_handlers[method], "TOOL_CALL")
    ELSE IF StartsWith(method, "/resources/") /\ method \in DOMAIN resource_handlers
    THEN Resolved(resource_handlers[method], "RESOURCE_CALL")
    ELSE IF StartsWith(method, "/prompts/") /\ method \in DOMAIN prompt_handlers
    THEN Resolved(prompt_handlers[method], "PROMPT_CALL")
    ELSE IF method \in DOMAIN method_handlers
    THEN Resolved(method_handlers[method], "METHOD_CALL")
    ELSE IF fallback_handler /= None
    THEN Resolved(fallback_handler, "UNKNOWN")
    ELSE NoHandler(method)

\* ------------------------------------------------------- handler behaviour

Returned(result) == [kind |-> "return", result |-> result, type |-> None, text |-> <<>>]
Raised(type, text) == [kind |-> "raise", result |-> EmptyDict, type |-> type, text |-> text]

\* FastMCPWebSocketRouter._default_initialize_handler
default_initialize_handler(message) ==
    [protocolVersion |-> Get(Get(message, "params", EmptyDict), "protocolVersion", "2.0"),
     capabilities |-> [sampling |-> EmptyDict, resources |-> EmptyDict, prompts |-> EmptyDict],
     roots |-> [listChanged |-> TRUE]]

\* inspect.getdoc(handler) or "": the text kept with the handler.
Doc(handler) == <<"doc of ", handler>>

\* The definition a default list handler appends for the entry at `path` of
\* `mapping`. The handlers here take (message, websocket) and nothing else,
\* so the parameters extracted from their signature are none.
ToolDefinition(mapping, path) ==
    [name |-> path, description |-> Doc(mapping[path]), parameters |-> EmptyDict,
     returnType |-> "object"]

ResourceDefinition(mapping, path) ==
    [name |-> path, description |-> Doc(mapping[path]), schema |-> EmptyDict,
     type |-> "string"]

PromptDefinition(mapping, path) ==
    [name |-> path, description |-> Doc(mapping[path]), parameters |-> EmptyDict,
     returnType |-> "string"]

\* The list built by `for path, handler in mapping.items(): out.append(...)`:
\* a sequence with one definition for every key, in some order of the keys.
Listing(definitions) ==
    CHOOSE out \in [1..Cardinality(definitions) -> definitions] :
        \A d \in definitions : \E i \in DOMAIN out : out[i] = d

\* A list_tools handler that lists the METHOD registrations with the tools.
default_list_tools_handler_WithMethods ==
    [items |-> Listing({ToolDefinition(tool_handlers, k) : k \in DOMAIN tool_handlers}
                       \cup {ToolDefinition(method_handlers, k) :
                                k \in DOMAIN method_handlers})]

\* _default_list_tools_handler (the list it returns is kept under `items`)
default_list_tools_handler ==
    [items |-> Listing({ToolDefinition(tool_handlers, k) : k \in DOMAIN tool_handlers})]

\* _default_list_resources_handler
default_list_resources_handler ==
    [items |-> Listing({ResourceDefinition(resource_handlers, k) :
                           k \in DOMAIN resource_handlers})]

\* _default_list_prompts_handler
default_list_prompts_handler ==
    [items |-> Listing({PromptDefinition(prompt_handlers, k) :
                           k \in DOMAIN prompt_handlers})]

\* What awaiting handler(message, websocket) ends in.
Await(handler, message) ==
    CASE handler = "_default_initialize_handler" -> Returned(default_initialize_handler(message))
      [] handler = "_default_list_tools_handler" -> Returned(default_list_tools_handler)
      [] handler = "_default_list_resources_handler" -> Returned(default_list_resources_handler)
      [] handler = "_default_list_prompts_handler" -> Returned(default_list_prompts_handler)
      [] handler = "_default_on_disconnect_handler" -> Returned([none |-> TRUE])
      [] handler = "echo_handler" -> Returned([echo |-> Get(message, "params", EmptyDict)])
      [] handler = "value_error_handler" -> Raised("ValueError", <<"Test error">>)
      [] handler = "runtime_error_handler" -> Raised("RuntimeError", <<"Test handler error">>)

\* ------------------------------------------------------------------ frames

\* JSON texts used as ids; null is the JSON null.
JsonIds == {"7", "0", "null"}

\* A JSON object with any subset of the members id and method, and a request
\* with the member params.
BareObjects ==
    {[k \in ks |-> f[k]] :
        ks \in SUBSET {"id", "method"}, f \in [id : JsonIds, method : MethodNames]}

WithParams(o, params) == [k \in DOMAIN o \cup {"params"} |->
                             IF k = "params" THEN params ELSE o[k]]

JsonObjects ==
    BareObjects \cup
    {WithParams([id |-> "7", method |-> m], [a |-> "1"]) : m \in MethodNames} \cup
    {WithParams([id |-> "7", method |-> "initialize"], [protocolVersion |-> "2024-11-05"])}

\* Text frames: text that is no JSON, JSON that is no object, JSON objects.
GarbageFrame == [json |-> FALSE, object |-> FALSE, value |-> EmptyDict]
NumberFrame == [json |-> TRUE, object |-> FALSE, value |-> EmptyDict]
ObjectFrame(o) == [json |-> TRUE, object |-> TRUE, value |-> o]

AllFrames == {GarbageFrame, NumberFrame} \cup {ObjectFrame(o) : o \in JsonObjects}

\* The frames of the sessions: one of each shape the message loop tells apart.
SessionFrames ==
    {GarbageFrame, NumberFrame,
     ObjectFrame([id |-> "7", method |-> "foo"]),
     ObjectFrame([method |-> "foo"]),
     ObjectFrame([id |-> "7", method |-> "/tools/x", params |-> [a |-> "1"]])}

\* json.loads on a member: the JSON null becomes None.
FromJson(v) == IF v = "null" THEN None ELSE v

\* json.loads(frame): the dict of a JSON object, "not a dict" for other JSON,
\* JSONDecodeError otherwise.
json_loads(frame) ==
    IF ~frame.json
    THEN [raised |-> "JSONDecodeError", dict |-> FALSE, data |-> EmptyDict]
    ELSE IF ~frame.object
    THEN [raised |-> None, dict |-> FALSE, data |-> EmptyDict]
    ELSE [raised |-> None, dict |-> TRUE,
          data |-> [k \in DOMAIN frame.value |->
                       IF k = "id" THEN FromJson(frame.value[k]) ELSE frame.value[k]]]

\* --------------------------------------------------------------- envelopes

\* A response that leaves out the id.
ResultEnvelope_NoId(msg_id, result) == [result |-> result]

ResultEnvelope(msg_id, result) == [id |-> msg_id, result |-> result]

\* An error envelope that leaves out the text of the error.
ErrorEnvelope_NoMessage(msg_id, code, message) ==
    [id |-> msg_id, error |-> [code |-> code, message |-> <<>>]]

\* An error envelope that reports a request naming no method as invalid.
ErrorEnvelope_InvalidRequest(msg_id, code, message) ==
    IF message = <<"Method not found: ", "">>
    THEN [id |-> msg_id, error |-> [code |-> -32600, message |-> <<"Invalid Request">>]]
    ELSE [id |-> msg_id, error |-> [code |-> code, message |-> message]]

ErrorEnvelope(msg_id, code, message) ==
    [id |-> msg_id, error |-> [code |-> code, message |-> message]]

\* A parse error reported with the code of an invalid request.
ParseErrorEnvelope_InvalidRequest ==
    [error |-> [code |-> -32600, message |-> <<"Invalid JSON">>]]

ParseErrorEnvelope == [error |-> [code |-> -32700, message |-> <<"Invalid JSON">>]]

\* What the transport does with one send_json: sends it, or raises.
SendOutcomes == {"ok", "RuntimeError"}

Attempt(envelope, outcome) == [envelope |-> envelope, outcome |-> outcome]

\* A test that lets notifications through.
IsNotNone_Always(v) == TRUE

\* `msg_id is not None`
IsNotNone(v) == v /= None

\* An outer boundary that lets the exception through.
dispatch_outer_except_Reraises(exc) == exc

\* The outer `except Exception` of dispatch_message: what is still raised
\* after it, for an exception that reaches it (every exception here is an
\* Exception, so it is caught and logged).
dispatch_outer_except(exc) == None

\* A dispatch_message that goes on to its error path after every result.
Respond_ErrorAfterResult(message, outcome, s1, s2) ==
    LET method == Get(message, "method", "")
        msg_id == Get(message, "id", None)
        first == IF outcome.kind = "return" /\ IsNotNone(msg_id)
                 THEN <<Attempt(ResultEnvelope(msg_id, outcome.result), s1)>>
                 ELSE <<>>
        exc == IF outcome.kind = "raise"
               THEN [type |-> outcome.type, text |-> outcome.text]
               ELSE IF first /= <<>>
               THEN [type |-> "RuntimeError", text |-> <<"send failed">>]
               ELSE [type |-> None, text |-> <<>>]
        sErr == IF first = <<>> THEN s1 ELSE s2
        second == IF exc.type = None \/ ~IsNotNone(msg_id)
                  THEN <<>>
                  ELSE IF exc.type = "ValueError"
                  THEN <<Attempt(ErrorEnvelope(msg_id, -32601,
                                               <<"Method not found: ", method>>), sErr)>>
                  ELSE <<Attempt(ErrorEnvelope(msg_id, -32000,
                                               <<"Error: ">> \o exc.text), sErr)>>
        reached == second /= <<>> /\ sErr /= "ok"
    IN  [attempts |-> first \o second,
         dispatch_error |-> reached,
         raises |-> IF reached THEN dispatch_outer_except(sErr) ELSE None]

\* dispatch_message from the end of the handler call (or of the failed
\* resolution) on: `outcome` is what the inner try block got, s1 and s2 are the
\* transport's outcomes for the first and the second send_json of this call.
\* The result lists the send_json calls made, tells whether an exception
\* reached the outer except (where it is logged), and what the call raises.
Respond(message, outcome, s1, s2) ==
    LET method == Get(message, "method", "")
        msg_id == Get(message, "id", None)
        first == IF outcome.kind = "return" /\ IsNotNone(msg_id)
                 THEN <<Attempt(ResultEnvelope(msg_id, outcome.result), s1)>>
                 ELSE <<>>
        exc == IF outcome.kind = "raise"
               THEN [type |-> outcome.type, text |-> outcome.text]
               ELSE IF first /= <<>> /\ s1 /= "ok"
               THEN [type |-> s1, text |-> <<"send failed">>]
               ELSE [type |-> None, text |-> <<>>]
        sErr == IF first = <<>> THEN s1 ELSE s2
        second == IF exc.type = None \/ ~IsNotNone(msg_id)
                  THEN <<>>
                  ELSE IF exc.type = "ValueError"
                  THEN <<Attempt(ErrorEnvelope(msg_id, -32601,
                                               <<"Method not found: ", method>>), sErr)>>
                  ELSE <<Attempt(ErrorEnvelope(msg_id, -32000,
                                               <<"Error: ">> \o exc.text), sErr)>>
        reached == second /= <<>> /\ sErr /= "ok"
    IN  [attempts |-> first \o second,
         dispatch_error |-> reached,
         raises |-> IF reached THEN dispatch_outer_except(sErr) ELSE None]

\* -------------------------------------------------------------------- Init

\* Local variables of a session that awaits no handler.
Idle == [handler |-> None, msg_type |-> None, message |-> EmptyDict]

\* Nothing has been processed yet.
NoLast == [conn |-> None, parsed |-> None, message |-> EmptyDict, handler |-> None,
           msg_type |-> None, raised |-> None, attempts |-> <<>>, dispatch_error |-> FALSE,
           escaped |-> FALSE]

\* Per connection: how often each teardown effect happened, the way the
\* session left its try block, how its ON_DISCONNECT handler ended, and what
\* handle_websocket raises to its caller.
NoObs == [on_disconnect_calls |-> 0, remove_connection_calls |-> 0, active_removals |-> 0,
          exit |-> None, on_disconnect |-> None, raises |-> None]

\* StandaloneClient.__init__: no websocket, message_id 0; the client is in no
\* call, has sent nothing and no call has ended yet.
NoCall == [call |-> None, kind |-> None, type |-> None, text |-> <<>>,
           result |-> EmptyDict, warned |-> FALSE]

NewClient == [websocket |-> None, message_id |-> 0, awaiting |-> None,
              request_id |-> 0, wire |-> <<>>, closed |-> 0, returned |-> NoCall]

\* A connection with nothing on its way.
NoLink == [to_server |-> <<>>, to_client |-> <<>>]

\* A router constructed without the registrations of its default handlers.
Init_Bare ==
    /\ tool_handlers = EmptyDict
    /\ resource_handlers = EmptyDict
    /\ prompt_handlers = EmptyDict
    /\ method_handlers = EmptyDict
    /\ fallback_handler = None
    /\ initialize_handler = None
    /\ list_tools_handler = None
    /\ list_resources_handler = None
    /\ list_prompts_handler = None
    /\ on_disconnect_handler = None
    /\ active_connections = {}
    /\ enable_connection_tracking \in BOOLEAN
    /\ connection_manager = IF enable_connection_tracking
                            THEN NewConnectionManager ELSE NoConnectionManager
    /\ connection_id = [c \in Conns |-> None]
    /\ issued = {}
    /\ pc = [c \in Conns |-> "idle"]
    /\ running = [c \in Conns |-> Idle]
    /\ regs = 0
    /\ accepted = [c \in Conns |-> FALSE]
    /\ obs = [c \in Conns |-> NoObs]
    /\ last = NoLast
    /\ client = NewClient
    /\ link = NoLink

\* FastMCPWebSocketRouter.__init__, for either value of enable_connection_tracking
Init ==
    /\ tool_handlers = EmptyDict
    /\ resource_handlers = EmptyDict
    /\ prompt_handlers = EmptyDict
    /\ method_handlers = EmptyDict
    /\ fallback_handler = None
    /\ initialize_handler = "_default_initialize_handler"
    /\ list_tools_handler = "_default_list_tools_handler"
    /\ list_resources_handler = "_default_list_resources_handler"
    /\ list_prompts_handler = "_default_list_prompts_handler"
    /\ on_disconnect_handler = "_default_on_disconnect_handler"
    /\ active_connections = {}
    /\ enable_connection_tracking \in BOOLEAN
    /\ connection_manager = IF enable_connection_tracking
                            THEN NewConnectionManager ELSE NoConnectionManager
    /\ connection_id = [c \in Conns |-> None]
    /\ issued = {}
    /\ pc = [c \in Conns |-> "idle"]
    /\ running = [c \in Conns |-> Idle]
    /\ regs = 0
    /\ accepted = [c \in Conns |-> FALSE]
    /\ obs = [c \in Conns |-> NoObs]
    /\ last = NoLast
    /\ client = NewClient
    /\ link = NoLink

\* ------------------------------------------------------------ registration

\* A register_* call touches the registry only; regs counts the calls.
Registering == /\ regs' = regs + 1
               /\ UNCHANGED <<trackingVars, sessionVars, client>>

register_initialize_handler(handler) ==
    /\ Registering
    /\ initialize_handler' = handler
    /\ UNCHANGED <<tool_handlers, resource_handlers, prompt_handlers, method_handlers,
                   fallback_handler, list_tools_handler, list_resources_handler,
                   list_prompts_handler, on_disconnect_handler>>

register_list_tools_handler(handler) ==
    /\ Registering
    /\ list_tools_handler' = handler
    /\ UNCHANGED <<tool_handlers, resource_handlers, prompt_handlers, method_handlers,
                   fallback_handler, initialize_handler, list_resources_handler,
                   list_prompts_handler, on_disconnect_handler>>

register_list_resources_handler(handler) ==
    /\ Registering
    /\ list_resources_handler' = handler
    /\ UNCHANGED <<tool_handlers, resource_handlers, prompt_handlers, method_handlers,
                   fallback_handler, initialize_handler, list_tools_handler,
                   list_prompts_handler, on_disconnect_handler>>

register_list_prompts_handler(handler) ==
    /\ Registering
    /\ list_prompts_handler' = handler
    /\ UNCHANGED <<tool_handlers, resource_handlers, prompt_handlers, method_handlers,
                   fallback_handler, initialize_handler, list_tools_handler,
                   list_resources_handler, on_disconnect_handler>>

register_on_disconnect_handler(handler) ==
    /\ Registering
    /\ on_disconnect_handler' = handler
    /\ UNCHANGED <<tool_handlers, resource_handlers, prompt_handlers, method_handlers,
                   fallback_handler, initialize_handler, list_tools_handler,
                   list_resources_handler, list_prompts_handler>>

register_tool_handler(tool_path, handler) ==
    /\ Registering
    /\ tool_handlers' = DictSet(tool_handlers, tool_path, handler)
    /\ UNCHANGED <<resource_handlers, prompt_handlers, method_handlers,
                   fallback_handler, initialize_handler, list_tools_handler,
                   list_resources_handler, list_prompts_handler, on_disconnect_handler>>

register_resource_handler(resource_path, handler) ==
    /\ Registering
    /\ resource_handlers' = DictSet(resource_handlers, resource_path, handler)
    /\ UNCHANGED <<tool_handlers, prompt_handlers, method_handlers,
                   fallback_handler, initialize_handler, list_tools_handler,
                   list_resources_handler, list_prompts_handler, on_disconnect_handler>>

register_prompt_handler(prompt_path, handler) ==
    /\ Registering
    /\ prompt_handlers' = DictSet(prompt_handlers, prompt_path, handler)
    /\ UNCHANGED <<tool_handlers, resource_handlers, method_handlers,
                   fallback_handler, initialize_handler, list_tools_handler,
                   list_resources_handler, list_prompts_handler, on_disconnect_handler>>

register_method_handler(method_name, handler) ==
    /\ Registering
    /\ method_handlers' = DictSet(method_handlers, method_name, handler)
    /\ UNCHANGED <<tool_handlers, resource_handlers, prompt_handlers,
                   fallback_handler, initialize_handler, list_tools_handler,
                   list_resources_handler, list_prompts_handler, on_disconnect_handler>>

register_fallback_handler(handler) ==
    /\ Registering
    /\ fallback_handler' = handler
    /\ UNCHANGED <<tool_handlers, resource_handlers, prompt_handlers, method_handlers,
                   initialize_handler, list_tools_handler,
                   list_resources_handler, list_prompts_handler, on_disconnect_handler>>

\* ---------------------------------------------------------------- teardown

\* The values stored with set_connection_data.
DataKeys == {"k"}
DataValues == {"v1", "v2"}

\* The message the ON_DISCONNECT handler is called with.
DisconnectMessage == [method |-> "on_disconnect"]

\* Cleanup without its last step: the handle stays in the active set.
Cleanup_KeepsActive(c, o) ==
    LET id == connection_id[c]
        removes == /\ enable_connection_tracking
                   /\ connection_manager /= NoConnectionManager
                   /\ id /= None
    IN  /\ connection_manager' = IF removes
                                 THEN CM_remove_connection(connection_manager, id)
                                 ELSE connection_manager
        /\ active_connections' = active_connections
        /\ obs' = [obs EXCEPT ![c] =
                     [o EXCEPT !.remove_connection_calls = @ + (IF removes THEN 1 ELSE 0)]]
        /\ pc' = [pc EXCEPT ![c] = "closed"]
        /\ running' = [running EXCEPT ![c] = Idle]

\* A cleanup after which the session is back in its message loop.
Cleanup_Reopens(c, o) ==
    LET id == connection_id[c]
        removes == /\ enable_connection_tracking
                   /\ connection_manager /= NoConnectionManager
                   /\ id /= None
        leaves == c \in active_connections
    IN  /\ connection_manager' = IF removes
                                 THEN CM_remove_connection(connection_manager, id)
                                 ELSE connection_manager
        /\ active_connections' = IF leaves THEN active_connections \ {c}
                                 ELSE active_connections
        /\ obs' = [obs EXCEPT ![c] =
                     [o EXCEPT !.remove_connection_calls = @ + (IF removes THEN 1 ELSE 0),
                               !.active_removals = @ + (IF leaves THEN 1 ELSE 0)]]
        /\ pc' = [pc EXCEPT ![c] = "receiving"]
        /\ running' = [running EXCEPT ![c] = Idle]

\* Cleanup without its first step: the identifier stays in the registry.
Cleanup_KeepsTracked(c, o) ==
    LET leaves == c \in active_connections
    IN  /\ connection_manager' = connection_manager
        /\ active_connections' = IF leaves THEN active_connections \ {c}
                                 ELSE active_connections
        /\ obs' = [obs EXCEPT ![c] =
                     [o EXCEPT !.active_removals = @ + (IF leaves THEN 1 ELSE 0)]]
        /\ pc' = [pc EXCEPT ![c] = "closed"]
        /\ running' = [running EXCEPT ![c] = Idle]

\* The finally block of handle_websocket after the ON_DISCONNECT handler:
\* connection tracking is cleaned up, the handle leaves the active set, and
\* handle_websocket returns.  `o` is the connection's record of observations.
Cleanup(c, o) ==
    LET id == connection_id[c]
        removes == /\ enable_connection_tracking
                   /\ connection_manager /= NoConnectionManager
                   /\ id /= None
        leaves == c \in active_connections
    IN  /\ connection_manager' = IF removes
                                 THEN CM_remove_connection(connection_manager, id)
                                 ELSE connection_manager
        /\ active_connections' = IF leaves THEN active_connections \ {c}
                                 ELSE active_connections
        /\ obs' = [obs EXCEPT ![c] =
                     [o EXCEPT !.remove_connection_calls = @ + (IF removes THEN 1 ELSE 0),
                               !.active_removals = @ + (IF leaves THEN 1 ELSE 0)]]
        /\ pc' = [pc EXCEPT ![c] = "closed"]
        /\ running' = [running EXCEPT ![c] = Idle]

\* Except clauses that take a disconnect only.
handle_websocket_except_DisconnectOnly(exc) ==
    IF exc = "WebSocketDisconnect" THEN None ELSE exc

\* The clauses `except WebSocketDisconnect` and `except Exception` of
\* handle_websocket (around the message loop, and around the whole body):
\* what is still raised after them, for what the try block ended in.
handle_websocket_except(exc) == None

\* A finally block that cleans up first and calls the ON_DISCONNECT handler
\* after that.
Finally_CleansFirst(c, exit, exc) ==
    LET o == [obs[c] EXCEPT !.exit = exit,
                            !.raises = handle_websocket_except(exc),
                            !.on_disconnect_calls =
                                @ + (IF on_disconnect_handler /= None THEN 1 ELSE 0)]
        id == connection_id[c]
        removes == /\ enable_connection_tracking
                   /\ connection_manager /= NoConnectionManager
                   /\ id /= None
    IN  IF on_disconnect_handler \in UserHandlers
        THEN /\ pc' = [pc EXCEPT ![c] = "disconnecting"]
             /\ running' = [running EXCEPT ![c] =
                               [handler |-> on_disconnect_handler, msg_type |-> None,
                                message |-> DisconnectMessage]]
             /\ obs' = [obs EXCEPT ![c] = o]
             /\ connection_manager' = IF removes
                                      THEN CM_remove_connection(connection_manager, id)
                                      ELSE connection_manager
             /\ active_connections' = active_connections \ {c}
        ELSE Cleanup(c, [o EXCEPT !.on_disconnect =
                            IF on_disconnect_handler /= None
                            THEN Await(on_disconnect_handler, DisconnectMessage).kind
                            ELSE None])

\* The finally block of handle_websocket, entered from the await `exit` of the
\* try block (accept, iter_text or _process_message) that ended in `exc`
\* (None for the end of the stream): the ON_DISCONNECT handler is called if
\* one is set; a caller's handler is awaited, the default one returns at once.
Finally(c, exit, exc) ==
    LET o == [obs[c] EXCEPT !.exit = exit,
                            !.raises = handle_websocket_except(exc),
                            !.on_disconnect_calls =
                                @ + (IF on_disconnect_handler /= None THEN 1 ELSE 0)]
    IN  IF on_disconnect_handler \in UserHandlers
        THEN /\ pc' = [pc EXCEPT ![c] = "disconnecting"]
             /\ running' = [running EXCEPT ![c] =
                               [handler |-> on_disconnect_handler, msg_type |-> None,
                                message |-> DisconnectMessage]]
             /\ obs' = [obs EXCEPT ![c] = o]
             /\ UNCHANGED <<connection_manager, active_connections>>
        ELSE Cleanup(c, [o EXCEPT !.on_disconnect =
                            IF on_disconnect_handler /= None
                            THEN Await(on_disconnect_handler, DisconnectMessage).kind
                            ELSE None])

\* A finally block that an exception of the ON_DISCONNECT handler leaves.
on_disconnect_return_Propagates(c) ==
    /\ pc[c] = "disconnecting"
    /\ LET kind == Await(running[c].handler, running[c].message).kind IN
       IF kind = "raise"
       THEN /\ pc' = [pc EXCEPT ![c] = "closed"]
            /\ running' = [running EXCEPT ![c] = Idle]
            /\ obs' = [obs EXCEPT ![c].on_disconnect = kind]
            /\ UNCHANGED <<connection_manager, active_connections>>
       ELSE Cleanup(c, [obs[c] EXCEPT !.on_disconnect = kind])
    /\ UNCHANGED <<registryVars, client, enable_connection_tracking, connection_id, issued,
                   regs, accepted, last>>

\* An ON_DISCONNECT handler that never ends: the finally block waits.
on_disconnect_return_Never(c) ==
    /\ pc[c] = "disconnecting"
    /\ UNCHANGED vars

\* The ON_DISCONNECT handler of a session ends, by a return or by an
\* exception, which is caught and logged; the finally block goes on.
on_disconnect_return(c) ==
    /\ pc[c] = "disconnecting"
    /\ LET kind == Await(running[c].handler, running[c].message).kind IN
       Cleanup(c, [obs[c] EXCEPT !.on_disconnect = kind])
    /\ UNCHANGED <<registryVars, client, enable_connection_tracking, connection_id, issued,
                   regs, accepted, last>>

\* ----------------------------------------------------------------- session

\* What websocket.accept() ends in.
AcceptOutcomes == {"ok", "WebSocketDisconnect", "RuntimeError"}

\* A handle_websocket that returns at once when accept raises.
handle_websocket_SkipsTeardown(c, accept) ==
    /\ pc[c] = "idle"
    /\ IF accept = "ok"
       THEN /\ active_connections' = active_connections \cup {c}
            /\ IF enable_connection_tracking /\ connection_manager /= NoConnectionManager
               THEN \E id \in UUIDs \ issued :
                       /\ connection_manager' = CM_add_connection(connection_manager, c, id)
                       /\ connection_id' = [connection_id EXCEPT ![c] = id]
                       /\ issued' = issued \cup {id}
               ELSE UNCHANGED <<connection_manager, connection_id, issued>>
            /\ pc' = [pc EXCEPT ![c] = "receiving"]
            /\ accepted' = [accepted EXCEPT ![c] = TRUE]
            /\ UNCHANGED <<running, obs>>
       ELSE /\ pc' = [pc EXCEPT ![c] = "closed"]
            /\ obs' = [obs EXCEPT ![c].exit = "accept"]
            /\ UNCHANGED <<connection_manager, active_connections, running,
                           connection_id, issued, accepted>>
    /\ UNCHANGED <<registryVars, client, enable_connection_tracking, regs, last>>

\* A handle_websocket that puts the handle into the active set before accept.
handle_websocket_AddsFirst(c, accept) ==
    /\ pc[c] = "idle"
    /\ IF accept = "ok"
       THEN /\ active_connections' = active_connections \cup {c}
            /\ IF enable_connection_tracking /\ connection_manager /= NoConnectionManager
               THEN \E id \in UUIDs \ issued :
                       /\ connection_manager' = CM_add_connection(connection_manager, c, id)
                       /\ connection_id' = [connection_id EXCEPT ![c] = id]
                       /\ issued' = issued \cup {id}
               ELSE UNCHANGED <<connection_manager, connection_id, issued>>
            /\ pc' = [pc EXCEPT ![c] = "receiving"]
            /\ accepted' = [accepted EXCEPT ![c] = TRUE]
            /\ UNCHANGED <<running, obs>>
       ELSE /\ active_connections' = active_connections \cup {c}
            /\ pc' = [pc EXCEPT ![c] = "disconnecting"]
            /\ running' = [running EXCEPT ![c] =
                              [handler |-> "echo_handler", msg_type |-> None,
                               message |-> DisconnectMessage]]
            /\ obs' = [obs EXCEPT ![c].exit = "accept"]
            /\ UNCHANGED <<connection_manager, connection_id, issued, accepted>>
    /\ UNCHANGED <<registryVars, client, enable_connection_tracking, regs, last>>

\* handle_websocket up to its first await inside the message loop: accept,
\* join the active set, track the connection; or, when accept raises, the
\* finally block.
handle_websocket(c, accept) ==
    /\ pc[c] = "idle"
    /\ IF accept = "ok"
       THEN /\ active_connections' = active_connections \cup {c}
            /\ IF enable_connection_tracking /\ connection_manager /= NoConnectionManager
               THEN \E id \in UUIDs \ issued :
                       /\ connection_manager' = CM_add_connection(connection_manager, c, id)
                       /\ connection_id' = [connection_id EXCEPT ![c] = id]
                       /\ issued' = issued \cup {id}
               ELSE UNCHANGED <<connection_manager, connection_id, issued>>
            /\ pc' = [pc EXCEPT ![c] = "receiving"]
            /\ accepted' = [accepted EXCEPT ![c] = TRUE]
            /\ UNCHANGED <<running, obs>>
       ELSE /\ Finally(c, "accept", accept)
            /\ UNCHANGED <<connection_id, issued, accepted>>
    /\ UNCHANGED <<registryVars, client, enable_connection_tracking, regs, last>>

\* What the end of websocket.iter_text() is: the stream ends, or it raises.
StreamEnds == {"end", "WebSocketDisconnect", "RuntimeError"}

\* A message loop that fetches the next frame while a dispatch is awaited.
AwaitingFrame_Eager(c) == pc[c] \in {"receiving", "handling"}

\* A message loop that waits for every dispatch of the router, not only its own.
AwaitingFrame_RouterWide(c) == pc[c] = "receiving" /\ \A d \in Conns : pc[d] /= "handling"

\* The session is at the head of its message loop, waiting for the next frame
\* of websocket.iter_text(): every _process_message before has been awaited.
AwaitingFrame(c) == pc[c] = "receiving"

\* The message loop of handle_websocket ends.
iter_text_end(c, how) ==
    /\ pc[c] = "receiving"
    /\ Finally(c, "iter_text", IF how = "end" THEN None ELSE how)
    /\ UNCHANGED <<registryVars, client, enable_connection_tracking, connection_id, issued,
                   regs, accepted, last>>

\* The session stays in its message loop.
StayOpen == UNCHANGED <<connection_manager, active_connections, obs, pc, running>>

\* One frame arrives and _process_message handles it, dispatch_message
\* included, up to the await of a caller's handler if it comes to that.
process_message(c, frame) ==
    /\ AwaitingFrame(c)
    /\ LET parsed == json_loads(frame)
           message == parsed.data
           found == get_handler_for_message(message)
       IN  IF parsed.raised = "JSONDecodeError"
           THEN \E s1 \in SendOutcomes :
                /\ last' = [NoLast EXCEPT !.conn = c, !.parsed = "JSONDecodeError",
                                          !.attempts = <<Attempt(ParseErrorEnvelope, s1)>>,
                                          !.escaped = (s1 /= "ok")]
                /\ IF s1 = "ok" THEN StayOpen ELSE Finally(c, "_process_message", s1)
           ELSE IF ~parsed.dict
           THEN LET raises == dispatch_outer_except("AttributeError") IN
                /\ last' = [NoLast EXCEPT !.conn = c, !.parsed = "not a dict",
                                          !.dispatch_error = TRUE,
                                          !.escaped = (raises /= None)]
                /\ IF raises = None THEN StayOpen
                   ELSE Finally(c, "_process_message", raises)
           ELSE IF found.handler \in UserHandlers
           THEN /\ pc' = [pc EXCEPT ![c] = "handling"]
                /\ running' = [running EXCEPT ![c] =
                                  [handler |-> found.handler,
                                   msg_type |-> found.msg_type, message |-> message]]
                /\ UNCHANGED <<connection_manager, active_connections, obs, last>>
           ELSE \E s1, s2 \in SendOutcomes :
                LET outcome == IF found.handler = None
                               THEN Raised("ValueError", found.text)
                               ELSE Await(found.handler, message)
                    resp == Respond(message, outcome, s1, s2)
                IN  /\ last' = [NoLast EXCEPT !.conn = c, !.parsed = "dict",
                                              !.message = message,
                                              !.handler = found.handler,
                                              !.msg_type = found.msg_type,
                                              !.raised = outcome.type,
                                              !.attempts = resp.attempts,
                                              !.dispatch_error = resp.dispatch_error,
                                              !.escaped = (resp.raises /= None)]
                    /\ IF resp.raises = None THEN StayOpen
                       ELSE Finally(c, "_process_message", resp.raises)
    /\ UNCHANGED <<registryVars, client, enable_connection_tracking, connection_id, issued,
                   regs, accepted>>

\* A dispatch_message that lets the handler's exception out: it ends the
\* message loop and the session goes to its finally block.
handler_return_Escapes(c) ==
    /\ pc[c] = "handling"
    /\ \E s1, s2 \in SendOutcomes :
          LET outcome == Await(running[c].handler, running[c].message)
              resp == Respond(running[c].message, outcome, s1, s2)
          IN  /\ last' = [NoLast EXCEPT !.conn = c, !.parsed = "dict",
                                        !.message = running[c].message,
                                        !.handler = running[c].handler,
                                        !.msg_type = running[c].msg_type,
                                        !.raised = outcome.type,
                                        !.attempts = resp.attempts,
                                        !.dispatch_error = resp.dispatch_error,
                                        !.escaped = (outcome.kind = "raise")]
              /\ IF outcome.kind = "raise"
                 THEN Finally(c, "_process_message", outcome.type)
                 ELSE /\ pc' = [pc EXCEPT ![c] = "receiving"]
                      /\ running' = [running EXCEPT ![c] = Idle]
                      /\ UNCHANGED <<connection_manager, active_connections, obs>>
    /\ UNCHANGED <<registryVars, client, enable_connection_tracking, connection_id, issued,
                   regs, accepted>>

\* The awaited handler ends and dispatch_message goes on to its end; the
\* session is back at the head of its message loop.
handler_return(c) ==
    /\ pc[c] = "handling"
    /\ \E s1, s2 \in SendOutcomes :
          LET outcome == Await(running[c].handler, running[c].message)
              resp == Respond(running[c].message, outcome, s1, s2)
          IN  /\ last' = [NoLast EXCEPT !.conn = c, !.parsed = "dict",
                                        !.message = running[c].message,
                                        !.handler = running[c].handler,
                                        !.msg_type = running[c].msg_type,
                                        !.raised = outcome.type,
                                        !.attempts = resp.attempts,
                                        !.dispatch_error = resp.dispatch_error,
                                        !.escaped = (resp.raises /= None)]
              /\ IF resp.raises = None
                 THEN /\ pc' = [pc EXCEPT ![c] = "receiving"]
                      /\ running' = [running EXCEPT ![c] = Idle]
                      /\ UNCHANGED <<connection_manager, active_connections, obs>>
                 ELSE Finally(c, "_process_message", resp.raises)
    /\ UNCHANGED <<registryVars, client, enable_connection_tracking, connection_id, issued,
                   regs, accepted>>

\* FastMCPWebSocketRouter.set_connection_data
set_connection_data(websocket, key, value) ==
    /\ connection_manager' =
          IF ~enable_connection_tracking \/ connection_manager = NoConnectionManager
          THEN connection_manager
          ELSE IF get_connection_id(websocket) /= None
          THEN CM_set_connection_data(connection_manager, get_connection_id(websocket),
                                      key, value)
          ELSE connection_manager
    /\ UNCHANGED <<registryVars, client, enable_connection_tracking, connection_id, issued,
                   sessionVars, regs>>

\* The outcome of the last message has been taken note of.
Forget ==
    /\ last /= NoLast
    /\ last' = NoLast
    /\ UNCHANGED <<registryVars, trackingVars, active_connections, pc, running,
                   accepted, obs, regs, client>>

\* ------------------------------------------------------- StandaloneClient

\* What websockets.connect ends in, and what websocket.send does.
ConnectOutcomes == {"ok", "OSError"}
ClientSendOutcomes == {"ok", "ConnectionClosed"}

\* The methods a caller passes to send_request, the params of a call without
\* params (None), and the request built (`params or {}`).
ClientMethods == {"list_tools", "/tools/x"}

NoParams == [none |-> TRUE]

Request(request_id, method, params) ==
    [jsonrpc |-> "2.0", id |-> request_id, method |-> method,
     params |-> IF params = NoParams THEN EmptyDict ELSE params]

\* The params of the initialize request.
InitializeParams ==
    [protocolVersion |-> "2024-11-05",
     clientInfo |-> [name |-> "standalone-client", version |-> "1.0.0"]]

\* How a call of the client ends.
CallReturns(call, result, warned) ==
    [call |-> call, kind |-> "return", type |-> None, text |-> <<>>,
     result |-> result, warned |-> warned]

CallRaises(call, type, text) ==
    [call |-> call, kind |-> "raise", type |-> type, text |-> text,
     result |-> EmptyDict, warned |-> FALSE]

\* A send_request that counts the request before it looks at the connection.
StartRequest_CountsFirst(c, call, method, params, sent) ==
    IF c.websocket = None
    THEN [c EXCEPT !.message_id = @ + 1,
                        !.returned = CallRaises(call, "RuntimeError",
                                                <<"Not connected to the server">>)]
    ELSE LET request_id == c.message_id + 1 IN
         IF sent = "ok"
         THEN [c EXCEPT !.message_id = request_id, !.request_id = request_id,
                        !.awaiting = call,
                        !.wire = Append(@, Request(request_id, method, params))]
         ELSE [c EXCEPT !.message_id = request_id, !.request_id = request_id,
                        !.returned = CallRaises(call, sent, <<>>)]

\* StandaloneClient.send_request up to `await self.websocket.recv()`, made by
\* `call` (send_request itself, or connect through initialize) on the client
\* `c`: the client after it. Without a websocket it raises RuntimeError at once; otherwise
\* the counter goes up, the request is built and handed to websocket.send,
\* which sends it or raises.
StartRequest(c, call, method, params, sent) ==
    IF c.websocket = None
    THEN [c EXCEPT !.returned = CallRaises(call, "RuntimeError",
                                                <<"Not connected to the server">>)]
    ELSE LET request_id == c.message_id + 1 IN
         IF sent = "ok"
         THEN [c EXCEPT !.message_id = request_id, !.request_id = request_id,
                        !.awaiting = call,
                        !.wire = Append(@, Request(request_id, method, params))]
         ELSE [c EXCEPT !.message_id = request_id, !.request_id = request_id,
                        !.returned = CallRaises(call, sent, <<>>)]

\* StandaloneClient.send_request(method), called while the client is in no
\* other call.
send_request(method, sent) ==
    /\ client.awaiting = None
    /\ client.message_id < MaxRequests
    /\ client' = StartRequest(client, "send_request", method, NoParams, sent)
    /\ UNCHANGED routerVars

\* StandaloneClient.connect: websockets.connect, then initialize(), which is
\* a send_request. A connect that raises leaves self.websocket as it was.
connect(outcome, sent) ==
    /\ client.awaiting = None
    /\ client.message_id < MaxRequests
    /\ IF outcome = "ok"
       THEN client' = StartRequest([client EXCEPT !.websocket = "websocket"], "connect",
                                   "initialize", InitializeParams, sent)
       ELSE client' = [client EXCEPT !.returned = CallRaises("connect", outcome, <<>>)]
    /\ UNCHANGED routerVars

\* What `await self.websocket.recv()` gives for the request with this id: a
\* result or error envelope, with the request's id or with another one; the
\* parse error envelope, which has no id; text that is no JSON; or the
\* exception of a closed connection.
Responses(request_id) ==
    {[kind |-> "json", envelope |-> e] :
        e \in {ResultEnvelope(request_id, [echo |-> EmptyDict]),
               ResultEnvelope(request_id + 1, [echo |-> EmptyDict]),
               ErrorEnvelope(request_id, -32601, <<"Method not found: ", "/tools/x">>),
               ParseErrorEnvelope}}
    \cup {[kind |-> "text", envelope |-> EmptyDict],
          [kind |-> "ConnectionClosed", envelope |-> EmptyDict]}

\* StandaloneClient.send_request from `await self.websocket.recv()` on.
send_request_recv(response) ==
    /\ client.awaiting /= None
    /\ LET call == client.awaiting
           e == response.envelope
           warned == "id" \in DOMAIN e /\ e.id /= client.request_id
           outcome ==
              IF response.kind = "ConnectionClosed"
              THEN CallRaises(call, "ConnectionClosed", <<>>)
              ELSE IF response.kind = "text"
              THEN CallRaises(call, "ValueError", <<"Invalid JSON in response">>)
              ELSE IF "error" \in DOMAIN e
              THEN CallRaises(call, "Exception",
                              <<"Error ", Get(e.error, "code", -1), ": ">>
                                 \o Get(e.error, "message", <<"Unknown error">>))
              ELSE CallReturns(call, Get(e, "result", [none |-> TRUE]), warned)
       IN  client' = [client EXCEPT !.awaiting = None, !.returned = outcome]
    /\ UNCHANGED routerVars

\* StandaloneClient.disconnect: the client after it.
Disconnected(c) ==
    IF c.websocket /= None
    THEN [c EXCEPT !.websocket = None, !.closed = @ + 1]
    ELSE c

\* StandaloneClient.disconnect, called while the client is in no other call.
disconnect ==
    /\ client.awaiting = None
    /\ client' = [Disconnected(client) EXCEPT !.returned =
                     CallReturns("disconnect", [none |-> TRUE], FALSE)]
    /\ UNCHANGED routerVars

\* ------------------------------------ the client and the router connected

\* The JSON texts of the ids the client counts up to, as json.dumps writes them.
Digits == <<"1", "2", "3", "4">>

IntText(n) == Digits[n]

\* json.loads on the text of an id: the number it denotes (the text itself
\* when it denotes none of these numbers).
TextInt(t) ==
    IF \E n \in DOMAIN Digits : Digits[n] = t
    THEN CHOOSE n \in DOMAIN Digits : Digits[n] = t
    ELSE t

\* json.dumps(request): the text frame the client sends.
json_dumps(request) ==
    ObjectFrame([jsonrpc |-> request.jsonrpc, id |-> IntText(request.id),
                 method |-> request.method, params |-> request.params])

\* What websocket.recv() and json.loads give the client for an envelope the
\* router has sent.
Received(envelope) ==
    [kind |-> "json",
     envelope |-> IF "id" \in DOMAIN envelope
                  THEN [envelope EXCEPT !.id = TextInt(@)]
                  ELSE envelope]

\* A transport that also carries the envelopes whose send_json raised.
Delivered_AlsoRaised(l) == [i \in DOMAIN l.attempts |-> l.attempts[i].envelope]

\* The envelopes of a processed message that go to the peer, in order: those
\* whose send_json returned.
Delivered(l) ==
    LET taken == SelectSeq(l.attempts, LAMBDA a : a.outcome = "ok")
    IN  [i \in DOMAIN taken |-> taken[i].envelope]

\* In this step a request, if the client's websocket.send took one, goes on
\* its way to the router.
Sending ==
    link' = IF Len(client'.wire) > Len(client.wire)
            THEN [link EXCEPT !.to_server = Append(@, json_dumps(client'.wire[Len(client'.wire)]))]
            ELSE link

\* The client connects, once, to the session the router has accepted.
client_connect(outcome, sent) ==
    /\ client.websocket = None
    /\ client.closed = 0
    /\ outcome = "ok" => accepted["ws1"]
    /\ connect(outcome, sent)
    /\ Sending

client_send_request(method, sent) ==
    /\ send_request(method, sent)
    /\ Sending

\* The next frame of the client comes out of websocket.iter_text() and is
\* processed; what the router sends for it goes on its way to the client.
router_process_message ==
    /\ link.to_server /= <<>>
    /\ process_message("ws1", Head(link.to_server))
    /\ link' = [to_server |-> Tail(link.to_server),
                to_client |-> IF pc'["ws1"] = "handling"
                              THEN link.to_client
                              ELSE link.to_client \o Delivered(last')]

router_handler_return ==
    /\ handler_return("ws1")
    /\ link' = [link EXCEPT !.to_client = @ \o Delivered(last')]

\* websocket.recv() of the client returns the next frame of the router.
client_recv ==
    /\ link.to_client /= <<>>
    /\ send_request_recv(Received(Head(link.to_client)))
    /\ link' = [link EXCEPT !.to_client = Tail(@)]

\* websocket.recv() of the client raises: the router's session is over and
\* every frame it sent has been read.
client_recv_closed ==
    /\ link.to_client = <<>>
    /\ pc["ws1"] = "closed"
    /\ send_request_recv([kind |-> "ConnectionClosed", envelope |-> EmptyDict])
    /\ UNCHANGED link

\* --------------------------------------------------------- specifications

\* The handlers registered while sessions run: one that returns, one that raises.
SessionHandlers == {"echo_handler", "runtime_error_handler"}

\* Sessions on every connection handle, with the registrations a session can
\* tell apart (its handler for "foo", a tool, the ON_DISCONNECT handler) made
\* at any time.
Next ==
    \/ UNCHANGED link /\ regs < MaxRegs /\
          \E h \in SessionHandlers : register_on_disconnect_handler(h)
    \/ UNCHANGED link /\ regs < MaxRegs /\
          \E k \in ToolPaths : register_tool_handler(k, "echo_handler")
    \/ UNCHANGED link /\ regs < MaxRegs /\
          \E h \in SessionHandlers : register_method_handler("foo", h)
    \/ UNCHANGED link /\ \E c \in Conns, a \in AcceptOutcomes : handle_websocket(c, a)
    \/ UNCHANGED link /\ \E c \in Conns, f \in SessionFrames : process_message(c, f)
    \/ UNCHANGED link /\ \E c \in Conns : handler_return(c)
    \/ UNCHANGED link /\ \E c \in Conns, how \in StreamEnds : iter_text_end(c, how)
    \/ UNCHANGED link /\ \E c \in Conns : on_disconnect_return(c)
    \/ UNCHANGED link /\
          \E c \in Conns, k \in DataKeys, v \in DataValues : set_connection_data(c, k, v)

Spec == Init /\ [][Next]_vars

\* The frames of the sessions that are run to their end: text that is no
\* JSON, a request and a notification.
LiveFrames ==
    {GarbageFrame, ObjectFrame([id |-> "7", method |-> "foo"]), ObjectFrame([method |-> "foo"])}

\* Sessions on every connection handle, with a handler for "foo" and an
\* ON_DISCONNECT handler registered at any time.
NextLive ==
    \/ UNCHANGED link /\ regs < MaxRegs /\
          \E h \in SessionHandlers : register_on_disconnect_handler(h)
    \/ UNCHANGED link /\ regs < MaxRegs /\
          \E h \in SessionHandlers : register_method_handler("foo", h)
    \/ UNCHANGED link /\ \E c \in Conns, a \in AcceptOutcomes : handle_websocket(c, a)
    \/ UNCHANGED link /\ \E c \in Conns, f \in LiveFrames : process_message(c, f)
    \/ UNCHANGED link /\ \E c \in Conns : handler_return(c)
    \/ UNCHANGED link /\ \E c \in Conns, how \in StreamEnds : iter_text_end(c, how)
    \/ UNCHANGED link /\ \E c \in Conns : on_disconnect_return(c)

\* These sessions under the assumption that every handler that is awaited
\* ends: the handler of a message, and the ON_DISCONNECT handler. Nothing is
\* assumed of the peer: a stream need not end, a frame need not come.
SpecLive ==
    /\ Init
    /\ [][NextLive]_vars
    /\ \A c \in Conns : /\ WF_vars(UNCHANGED link /\ handler_return(c))
                         /\ WF_vars(UNCHANGED link /\ on_disconnect_return(c))

\* Keys registered in the routing specification: for TOOL a path of its
\* namespace and a name outside it; for METHOD a plain name, the empty name, a
\* path of a namespace and a system name.
ToolKeys == ToolPaths \cup {"foo"}
MethodKeys == {"foo", "", "/tools/x", "initialize"}

\* The routing of messages: one session, every frame, registrations in every
\* category; each message's outcome is taken note of before the next frame.
NextDispatch ==
    \/ UNCHANGED link /\ regs < MaxDispatchRegs /\ register_initialize_handler("echo_handler")
    \/ UNCHANGED link /\ regs < MaxDispatchRegs /\ register_list_tools_handler("echo_handler")
    \/ UNCHANGED link /\ regs < MaxDispatchRegs /\ register_list_resources_handler("echo_handler")
    \/ UNCHANGED link /\ regs < MaxDispatchRegs /\ register_list_prompts_handler("echo_handler")
    \/ UNCHANGED link /\ regs < MaxDispatchRegs /\
          \E k \in ToolKeys : register_tool_handler(k, "echo_handler")
    \/ UNCHANGED link /\ regs < MaxDispatchRegs /\
          \E k \in ResourcePaths : register_resource_handler(k, "echo_handler")
    \/ UNCHANGED link /\ regs < MaxDispatchRegs /\
          \E k \in PromptPaths : register_prompt_handler(k, "echo_handler")
    \/ UNCHANGED link /\ regs < MaxDispatchRegs /\
          \E k \in MethodKeys : register_method_handler(k, "echo_handler")
    \/ UNCHANGED link /\ regs < MaxDispatchRegs /\
          \E h \in UserHandlers \ {"echo_handler"} : register_method_handler("foo", h)
    \/ UNCHANGED link /\ regs < MaxDispatchRegs /\
          \E h \in {"echo_handler", "runtime_error_handler"} : register_fallback_handler(h)
    \/ UNCHANGED link /\ handle_websocket("ws1", "ok")
    \/ UNCHANGED link /\ last = NoLast /\ \E f \in AllFrames : process_message("ws1", f)
    \/ UNCHANGED link /\ handler_return("ws1")
    \/ UNCHANGED link /\ Forget

SpecDispatch == Init /\ [][NextDispatch]_vars

\* A client and its caller: calls of connect, send_request and disconnect,
\* one after the other, with every answer the connection can give.
NextClient ==
    \/ UNCHANGED link /\ \E o \in ConnectOutcomes, sent \in ClientSendOutcomes : connect(o, sent)
    \/ UNCHANGED link /\ \E m \in ClientMethods, sent \in ClientSendOutcomes : send_request(m, sent)
    \/ UNCHANGED link /\ \E r \in Responses(client.request_id) : send_request_recv(r)
    \/ UNCHANGED link /\ disconnect

SpecClient == Init /\ [][NextClient]_vars

\* JSON texts of ids of every kind: a number, zero, the empty string, false
\* and null.
AnyIds == JsonIds \cup {"\"\"", "false"}

\* Messages named foo and on_disconnect, without an id and with each of them.
NamedFrames ==
    {ObjectFrame([method |-> m]) : m \in {"foo", "on_disconnect"}} \cup
    {ObjectFrame([id |-> i, method |-> m]) : i \in AnyIds, m \in {"foo", "on_disconnect"}}

\* One session from its accept to the end of its teardown, with an
\* ON_DISCONNECT handler of the caller, METHOD handlers under the names foo
\* and on_disconnect, and a FALLBACK handler registered at any time; each
\* message's outcome is taken note of before the next frame.
NextSession ==
    \/ UNCHANGED link /\ regs < MaxDispatchRegs /\
          \E h \in SessionHandlers : register_on_disconnect_handler(h)
    \/ UNCHANGED link /\ regs < MaxDispatchRegs /\
          \E m \in {"foo", "on_disconnect"} : register_method_handler(m, "echo_handler")
    \/ UNCHANGED link /\ regs < MaxDispatchRegs /\
          register_fallback_handler("runtime_error_handler")
    \/ UNCHANGED link /\ \E a \in AcceptOutcomes : handle_websocket("ws1", a)
    \/ UNCHANGED link /\ last = NoLast /\ \E f \in NamedFrames : process_message("ws1", f)
    \/ UNCHANGED link /\ handler_return("ws1")
    \/ UNCHANGED link /\ \E how \in StreamEnds : iter_text_end("ws1", how)
    \/ UNCHANGED link /\ on_disconnect_return("ws1")
    \/ UNCHANGED link /\ Forget

SpecSession == Init /\ [][NextSession]_vars

\* One client and the router's session for it, over a connection that keeps
\* the order of the frames: the client calls connect and then send_request,
\* one call after the other; a tool is registered at any time with a handler
\* that returns or raises; the stream of the session may end at any time.
NextPair ==
    \/ UNCHANGED link /\ regs < MaxRegs /\
          \E h \in UserHandlers : register_tool_handler("/tools/x", h)
    \/ UNCHANGED link /\ \E a \in AcceptOutcomes : handle_websocket("ws1", a)
    \/ UNCHANGED link /\ \E how \in StreamEnds : iter_text_end("ws1", how)
    \/ UNCHANGED link /\ disconnect
    \/ \E o \in ConnectOutcomes, sent \in ClientSendOutcomes : client_connect(o, sent)
    \/ \E m \in ClientMethods, sent \in ClientSendOutcomes : client_send_request(m, sent)
    \/ router_process_message
    \/ router_handler_return
    \/ client_recv
    \/ client_recv_closed

SpecPair == Init /\ [][NextPair]_vars

\* ------------------------------------------------------------------ claims

\* The envelopes of a processed message that the transport took.
Sent(l) == SelectSeq(l.attempts, LAMBDA a : a.outcome = "ok")

\* Every send_json of a processed message went through.
TransportOk(l) == \A i \in 1..Len(l.attempts) : l.attempts[i].outcome = "ok"

\* The registry holds nothing for this connection's identifier.
Untracked(c) ==
    connection_id[c] /= None =>
        /\ connection_id[c] \notin DOMAIN connection_manager.connections
        /\ connection_id[c] \notin DOMAIN connection_manager.connection_data

\* C1, as stated: when handle_websocket has returned, the ON_DISCONNECT
\* handler was invoked once, the handle was removed from the active set once
\* and (with tracking) the identifier was removed from the registry once,
\* whichever way the session ended, accept failure included.
C1_EffectsOnceOnEveryExit ==
    \A c \in Conns :
        pc[c] = "closed" =>
            /\ obs[c].on_disconnect_calls = 1
            /\ obs[c].active_removals = 1
            /\ enable_connection_tracking => obs[c].remove_connection_calls = 1

\* C1, amended: no teardown effect happens before the session ends or more
\* than once; when handle_websocket has returned, the ON_DISCONNECT handler
\* was invoked exactly once on every exit path, the removal from the active
\* set happened exactly once if accept had succeeded and not at all if accept
\* failed (the handle never joined the set), the removal from the registry
\* happened exactly once if accept had succeeded with tracking enabled and not
\* at all otherwise, and neither the handle nor its identifier is left behind.
C1_TeardownOnce ==
    \A c \in Conns :
        /\ pc[c] \in {"idle", "receiving", "handling"} =>
              /\ obs[c].on_disconnect_calls = 0
              /\ obs[c].active_removals = 0
              /\ obs[c].remove_connection_calls = 0
        /\ pc[c] = "disconnecting" =>
              /\ obs[c].on_disconnect_calls = 1
              /\ obs[c].active_removals = 0
              /\ obs[c].remove_connection_calls = 0
        /\ pc[c] = "closed" =>
              /\ obs[c].on_disconnect_calls = 1
              /\ obs[c].active_removals = (IF accepted[c] THEN 1 ELSE 0)
              /\ obs[c].remove_connection_calls =
                    (IF accepted[c] /\ enable_connection_tracking THEN 1 ELSE 0)
              /\ c \notin active_connections
              /\ enable_connection_tracking => Untracked(c)

\* C1, witness: with tracking enabled, one session ended by a failed accept
\* and another, accepted, ended inside its message loop.
C1_Witness ==
    /\ enable_connection_tracking
    /\ \E c, d \in Conns :
          /\ pc[c] = "closed" /\ ~accepted[c] /\ obs[c].exit = "accept"
          /\ pc[d] = "closed" /\ accepted[d] /\ obs[d].exit = "_process_message"

\* ---- routing of one message (SpecDispatch)

\* The message carries an id other than the JSON null.
IsRequest(message) == Get(message, "id", None) /= None

\* In SpecDispatch: this step is _process_message taking a JSON object on c.
ProcessStep(c) ==
    /\ pc[c] = "receiving"
    /\ last = NoLast
    /\ pc'[c] = "handling" \/ last'.parsed = "dict"

\* The message of that step, and the handler it invoked (None if none).
StepMessage(c) == IF pc'[c] = "handling" THEN running'[c].message ELSE last'.message
StepHandler(c) == IF pc'[c] = "handling" THEN running'[c].handler ELSE last'.handler

\* This step is the end of the handler awaited on c.
ReturnStep(c) == pc[c] = "handling" /\ pc'[c] = "receiving"

\* The outcome `l` of a request is one envelope, with the request's id and
\* exactly one of result and error.
OneAnswer(l) ==
    /\ Len(Sent(l)) = 1
    /\ "id" \in DOMAIN Sent(l)[1].envelope
    /\ Sent(l)[1].envelope.id = l.message.id
    /\ ("result" \in DOMAIN Sent(l)[1].envelope) /= ("error" \in DOMAIN Sent(l)[1].envelope)

\* The handler awaited on c ends: it was the one invoked, for this message,
\* and a request gets one answer if the transport takes what is sent.
AnswersOnce(c) ==
    /\ last'.handler = running[c].handler
    /\ last'.message = running[c].message
    /\ IsRequest(running[c].message) /\ TransportOk(last') =>
          /\ OneAnswer(last')
          /\ running[c].handler = "echo_handler" =>
                Sent(last')[1].envelope =
                    [id |-> running[c].message.id,
                     result |-> [echo |-> Get(running[c].message, "params", EmptyDict)]]

ResolvesAt(msg_type, K) ==
    CASE msg_type = "TOOL_CALL" -> StartsWith(K, "/tools/")
      [] msg_type = "RESOURCE_CALL" -> StartsWith(K, "/resources/")
      [] msg_type = "PROMPT_CALL" -> StartsWith(K, "/prompts/")
      [] msg_type = "METHOD_CALL" ->
            /\ ~(K = "initialize" /\ initialize_handler /= None)
            /\ ~(K = "list_tools" /\ list_tools_handler /= None)
            /\ ~(K = "list_resources" /\ list_resources_handler /= None)
            /\ ~(K = "list_prompts" /\ list_prompts_handler /= None)
            /\ ~(StartsWith(K, "/tools/") /\ K \in DOMAIN tool_handlers)
            /\ ~(StartsWith(K, "/resources/") /\ K \in DOMAIN resource_handlers)
            /\ ~(StartsWith(K, "/prompts/") /\ K \in DOMAIN prompt_handlers)

MappingOf(msg_type) ==
    CASE msg_type = "TOOL_CALL" -> tool_handlers
      [] msg_type = "RESOURCE_CALL" -> resource_handlers
      [] msg_type = "PROMPT_CALL" -> prompt_handlers
      [] msg_type = "METHOD_CALL" -> method_handlers

KeyedTypes == {"TOOL_CALL", "RESOURCE_CALL", "PROMPT_CALL", "METHOD_CALL"}

C3_NotificationSilent ==
    (last.parsed = "dict" /\ "id" \notin DOMAIN last.message) => last.attempts = <<>>

\* C3, witness: a notification whose handler raised has been processed.
C3_Witness ==
    /\ last.parsed = "dict"
    /\ "id" \notin DOMAIN last.message
    /\ last.handler = "runtime_error_handler"
    /\ last.raised = "RuntimeError"
    /\ last.attempts = <<>>

\* C4, as stated: when the invoked handler raised, whatever it raised, the
\* envelope sent for a message with an id is
\* {id, error: {code: -32000, message: "Error: <failure description>"}}.
C4_HandlerFailureIs32000 ==
    (last.handler /= None /\ last.raised /= None /\ IsRequest(last.message)) =>
        /\ last.attempts /= <<>>
        /\ last.attempts[1].envelope =
              ErrorEnvelope(last.message.id, -32000,
                            <<"Error: ">> \o Await(last.handler, last.message).text)

\* The system handler kept under a system name (None under other names), and
\* the message type of its calls.
SystemHandler(method) ==
    CASE method = "initialize" -> initialize_handler
      [] method = "list_tools" -> list_tools_handler
      [] method = "list_resources" -> list_resources_handler
      [] method = "list_prompts" -> list_prompts_handler
      [] OTHER -> None

SystemType(method) ==
    CASE method = "initialize" -> "INITIALIZE"
      [] method = "list_tools" -> "LIST_TOOLS"
      [] method = "list_resources" -> "LIST_RESOURCES"
      [] method = "list_prompts" -> "LIST_PROMPTS"
      [] OTHER -> None

\* The keyed message type of a path's namespace (None outside the namespaces).
NamespaceType(method) ==
    IF StartsWith(method, "/tools/") THEN "TOOL_CALL"
    ELSE IF StartsWith(method, "/resources/") THEN "RESOURCE_CALL"
    ELSE IF StartsWith(method, "/prompts/") THEN "PROMPT_CALL"
    ELSE None

\* The method is a path registered in the mapping of its namespace.
NamespaceHit(method) ==
    /\ NamespaceType(method) /= None
    /\ method \in DOMAIN MappingOf(NamespaceType(method))

\* No system handler, keyed mapping or METHOD registration matches the method.
Unmatched(method) ==
    /\ SystemHandler(method) = None
    /\ ~NamespaceHit(method)
    /\ method \notin DOMAIN method_handlers

\* C5: a message with an id (not null) whose method matches no registration is
\* answered, with no FALLBACK handler, by exactly
\* {id, error: {code: -32601, message: "Method not found: <method>"}}, and is
\* handed, with a FALLBACK handler, to that handler, whose result is sent as
\* {id, result} (a send is an attempt; it is the only one when it goes through).
C5_UnmatchedMethod ==
    [][\A c \in Conns :
         /\ ProcessStep(c) /\ IsRequest(StepMessage(c))
               /\ Unmatched(Get(StepMessage(c), "method", "")) =>
               IF fallback_handler = None
               THEN /\ last'.parsed = "dict" /\ last'.handler = None
                    /\ Len(last'.attempts) = 1
                    /\ last'.attempts[1].envelope =
                          [id |-> StepMessage(c).id,
                           error |-> [code |-> -32601,
                                      message |-> <<"Method not found: ",
                                                    Get(StepMessage(c), "method", "")>>]]
               ELSE /\ pc'[c] = "handling"
                    /\ running'[c] = [handler |-> fallback_handler, msg_type |-> "UNKNOWN",
                                      message |-> StepMessage(c)]
         /\ ReturnStep(c) /\ running[c].msg_type = "UNKNOWN"
               /\ IsRequest(running[c].message)
               /\ Await(running[c].handler, running[c].message).kind = "return" =>
               /\ last'.attempts /= <<>>
               /\ last'.attempts[1].envelope =
                     [id |-> running[c].message.id,
                      result |-> Await(running[c].handler, running[c].message).result]
               /\ TransportOk(last') => Len(last'.attempts) = 1]_vars

\* C5, witness: with no FALLBACK, {id: 7, method: foo} was answered by the
\* -32601 envelope naming foo.
C5_Witness ==
    /\ last.message = [id |-> "7", method |-> "foo"]
    /\ last.msg_type = "ValueError"
    /\ Sent(last) = <<Attempt([id |-> "7",
                               error |-> [code |-> -32601,
                                          message |-> <<"Method not found: ", "foo">>]],
                              "ok")>>

\* C5, witness of the other case: a FALLBACK handler answered a request for
\* an unmatched method with its result.
C5_FallbackWitness ==
    /\ last.msg_type = "UNKNOWN"
    /\ last.handler = "echo_handler"
    /\ IsRequest(last.message)
    /\ Sent(last) = <<Attempt([id |-> last.message.id,
                               result |-> [echo |-> Get(last.message, "params", EmptyDict)]],
                              "ok")>>

NamespacedNames == ToolPaths \cup ResourcePaths \cup PromptPaths

\* What C6 says the lookup of an unmatched namespaced path comes to.
FallbackOrFailure(method) ==
    IF fallback_handler /= None
    THEN Resolved(fallback_handler, "UNKNOWN")
    ELSE NoHandler(method)

C7_Precedence ==
    \A m \in MethodNames :
        LET r == get_handler_for_message([method |-> m]) IN
        /\ r = IF SystemHandler(m) /= None
               THEN Resolved(SystemHandler(m), SystemType(m))
               ELSE IF NamespaceHit(m)
               THEN Resolved(MappingOf(NamespaceType(m))[m], NamespaceType(m))
               ELSE IF m \in DOMAIN method_handlers
               THEN Resolved(method_handlers[m], "METHOD_CALL")
               ELSE FallbackOrFailure(m)
        /\ (m \in SystemNames /\ SystemHandler(m) /= None) => r.msg_type /= "METHOD_CALL"
        /\ r.msg_type = "UNKNOWN" => Unmatched(m) /\ r.handler = fallback_handler
        /\ r.msg_type = "ValueError" => Unmatched(m) /\ fallback_handler = None

\* C7, witness: with a METHOD registered under the name initialize, and a
\* FALLBACK registered as well, an initialize request went to the system handler.
C7_Witness ==
    /\ "initialize" \in DOMAIN method_handlers
    /\ fallback_handler /= None
    /\ last.message = [id |-> "7", method |-> "initialize"]
    /\ last.msg_type = "INITIALIZE"
    /\ last.handler = initialize_handler
    /\ get_handler_for_message(last.message) = Resolved(initialize_handler, "INITIALIZE")

\* ---- sessions (Spec)

\* A session in its message loop takes whatever frame comes next.
LoopTakesFrames(c) == \A f \in SessionFrames : ENABLED process_message(c, f)

\* This step is _process_message on c meeting text that is no JSON.
InvalidJsonStep(c) ==
    /\ pc[c] = "receiving"
    /\ last' /= last
    /\ last'.conn = c
    /\ last'.parsed = "JSONDecodeError"

\* This step is the end, by an exception, of the handler awaited on c.
HandlerRaisedStep(c) ==
    /\ pc[c] = "handling"
    /\ pc'[c] /= "handling"
    /\ Await(running[c].handler, running[c].message).kind = "raise"

\* C8: for a frame that is no JSON the session makes one send_json, of
\* exactly {error: {code: -32700, message: "Invalid JSON"}}, without id; when
\* the transport takes it the session stays open, in its message loop, where
\* it takes the frames that follow, and is left in the active set and in the
\* registry.
C8_InvalidJsonKeepsSession ==
    /\ [][\A c \in Conns :
            InvalidJsonStep(c) =>
                /\ Len(last'.attempts) = 1
                /\ last'.attempts[1].envelope =
                      [error |-> [code |-> -32700, message |-> <<"Invalid JSON">>]]
                /\ "id" \notin DOMAIN last'.attempts[1].envelope
                /\ last'.attempts[1].outcome = "ok" =>
                      /\ pc'[c] = "receiving"
                      /\ c \in active_connections'
                      /\ connection_manager' = connection_manager
                      /\ obs'[c] = obs[c]]_vars
    /\ [](\A c \in Conns :
            (/\ last.conn = c /\ last.parsed = "JSONDecodeError"
             /\ last.attempts[1].outcome = "ok"
             /\ pc[c] = "receiving") => LoopTakesFrames(c))

\* C8, witness: a frame that is no JSON got the -32700 envelope and its
\* session is in its message loop, open to the next frame.
C8_Witness ==
    /\ last.parsed = "JSONDecodeError"
    /\ Sent(last) = <<Attempt(ParseErrorEnvelope, "ok")>>
    /\ last.conn \in Conns
    /\ pc[last.conn] = "receiving"
    /\ last.conn \in active_connections
    /\ LoopTakesFrames(last.conn)

\* C9: when the handler of a message raises, the session goes back to its
\* message loop, where it takes the frames that follow, and stays in the
\* active set and in the registry; every other connection's session is where
\* it was, with its registry entry and data.
C9_HandlerFailureKeepsLoop ==
    /\ [][\A c \in Conns :
            HandlerRaisedStep(c) =>
                /\ pc'[c] = "receiving"
                /\ ~last'.escaped
                /\ active_connections' = active_connections
                /\ connection_manager' = connection_manager
                /\ obs' = obs
                /\ \A d \in Conns \ {c} : pc'[d] = pc[d] /\ running'[d] = running[d]]_vars
    /\ [](\A c \in Conns :
            (/\ last.conn = c /\ last.handler \in UserHandlers /\ last.raised /= None
             /\ pc[c] = "receiving") => LoopTakesFrames(c))

\* C9, witness: a handler raised on one connection while another session was
\* open; the first is back in its message loop and the other is open still.
C9_Witness ==
    /\ last.handler \in {"value_error_handler", "runtime_error_handler"}
    /\ last.raised /= None
    /\ last.conn \in Conns
    /\ pc[last.conn] = "receiving"
    /\ LoopTakesFrames(last.conn)
    /\ \E d \in Conns \ {last.conn} : pc[d] \in {"receiving", "handling"}
                                         /\ d \in active_connections

\* C10: when the ON_DISCONNECT handler of a caller raises in the finally
\* block, handle_websocket still returns with the rest of the teardown done:
\* the identifier and its data are out of the registry (with tracking), by
\* one remove_connection, and the handle is out of the active set.
C10_DisconnectFailureCleansUp ==
    [][\A c \in Conns :
          (/\ pc[c] = "disconnecting"
           /\ pc'[c] /= "disconnecting"
           /\ Await(running[c].handler, running[c].message).kind = "raise") =>
              /\ pc'[c] = "closed"
              /\ obs'[c].on_disconnect = "raise"
              /\ c \notin active_connections'
              /\ c \in active_connections =>
                    obs'[c].active_removals = obs[c].active_removals + 1
              /\ (enable_connection_tracking /\ connection_id[c] /= None) =>
                    /\ connection_id[c] \notin DOMAIN connection_manager'.connections
                    /\ connection_id[c] \notin DOMAIN connection_manager'.connection_data
                    /\ obs'[c].remove_connection_calls =
                          obs[c].remove_connection_calls + 1]_vars

\* C10, witness: a tracked session with stored data has ended, its
\* ON_DISCONNECT handler raised, and nothing of it is left.
C10_Witness ==
    \E c \in Conns :
        /\ pc[c] = "closed"
        /\ obs[c].on_disconnect = "raise"
        /\ accepted[c]
        /\ enable_connection_tracking
        /\ connection_id[c] /= None
        /\ obs[c].remove_connection_calls = 1
        /\ obs[c].active_removals = 1
        /\ Untracked(c)
        /\ c \notin active_connections

\* ---- failures of a session (Spec)

\* The registry holds no identifier for the handle c.
NotInRegistry(c) ==
    connection_manager /= NoConnectionManager =>
        \A id \in DOMAIN connection_manager.connections :
            connection_manager.connections[id] /= c

\* C11: when accept raises (a disconnect or another error) the session goes
\* to its teardown at once: the ON_DISCONNECT handler is invoked, once; no
\* message of the connection is received or dispatched; the handle is never
\* in the active set and never gets an identifier in the registry.
C11_AcceptFailureTearsDown ==
    /\ [][\A c \in Conns :
            (pc[c] = "idle" /\ pc'[c] \notin {"idle", "receiving"}) =>
                /\ pc'[c] \in {"disconnecting", "closed"}
                /\ obs'[c].exit = "accept"
                /\ obs'[c].on_disconnect_calls = 1
                /\ pc'[c] = "disconnecting" =>
                      running'[c] = [handler |-> on_disconnect_handler, msg_type |-> None,
                                     message |-> [method |-> "on_disconnect"]]]_vars
    /\ [](\A c \in Conns :
            obs[c].exit = "accept" =>
                /\ pc[c] \in {"disconnecting", "closed"}
                /\ obs[c].on_disconnect_calls = 1
                /\ ~accepted[c]
                /\ last.conn /= c
                /\ running[c].msg_type = None
                /\ c \notin active_connections
                /\ connection_id[c] = None
                /\ NotInRegistry(c))

\* C11, witness: accept raised on one handle, whose session has ended with
\* the ON_DISCONNECT handler invoked, while another, tracked, session is open.
C11_Witness ==
    \E c \in Conns :
        /\ pc[c] = "closed"
        /\ obs[c].exit = "accept"
        /\ obs[c].on_disconnect_calls = 1
        /\ c \notin active_connections
        /\ NotInRegistry(c)
        /\ \E d \in Conns \ {c} : d \in active_connections /\ ~NotInRegistry(d)

FailedSends(l) == {i \in 1..Len(l.attempts) : l.attempts[i].outcome /= "ok"}

C14_AtMostOneEnvelope ==
    last.parsed \in {"dict", "not a dict"} =>
        /\ Len(Sent(last)) <= 1
        /\ Len(last.attempts) <= 2
        /\ Len(last.attempts) = 2 => last.attempts[1].outcome /= "ok"

\* C14, witness: the send of a result raised and the error envelope sent
\* after it is the one envelope of the call.
C14_Witness ==
    /\ last.parsed = "dict"
    /\ Len(last.attempts) = 2
    /\ last.attempts[1].outcome /= "ok"
    /\ "result" \in DOMAIN last.attempts[1].envelope
    /\ Sent(last) = <<last.attempts[2]>>

\* ---- connection tracking (Spec)

\* The lifetime of a tracked connection: from add_connection to the
\* remove_connection of its teardown.
Tracked(c) ==
    /\ enable_connection_tracking
    /\ accepted[c]
    /\ pc[c] \in {"receiving", "handling", "disconnecting"}

\* C15: with tracking enabled, set_connection_data(handle, k, v) during the
\* connection's lifetime makes get_connection_data(handle, k) return v, and
\* leaves the other handles' data alone; what get_connection_data returns
\* changes only by a set_connection_data on that handle and key, or by the
\* teardown of the connection; after the teardown it returns None.
C15_DataRoundTrip ==
    /\ [][\A c \in Conns, k \in DataKeys :
            /\ \A v \in DataValues :
                  (/\ Tracked(c)
                   /\ connection_manager' /= connection_manager
                   /\ set_connection_data(c, k, v)) =>
                      /\ get_connection_data(c, k)' = v
                      /\ \A d \in Conns \ {c} :
                            get_connection_data(d, k)' = get_connection_data(d, k)
            /\ get_connection_data(c, k)' /= get_connection_data(c, k) =>
                  \/ \E v \in DataValues : Tracked(c) /\ set_connection_data(c, k, v)
                  \/ /\ pc[c] /= "closed" /\ pc'[c] = "closed"
                     /\ get_connection_data(c, k)' = None]_vars
    /\ [](\A c \in Conns, k \in DataKeys :
            pc[c] = "closed" => get_connection_data(c, k) = None)

\* C15, witness: one tracked connection holds the value that overwrote its
\* first one; the other, tracked too, is torn down and has none.
C15_Witness ==
    \E c, d \in Conns :
        /\ Tracked(c) /\ get_connection_data(c, "k") = "v2"
        /\ pc[d] = "closed" /\ connection_id[d] /= None
        /\ get_connection_data(d, "k") = None

\* C16: with tracking disabled, whatever connections are accepted, messages
\* processed and calls made: get_connection_id and get_connection_data return
\* None for every handle, there is no connection manager, uuid4 has returned
\* no identifier and no handle has the attribute connection_id; and
\* set_connection_data changes nothing.
C16_TrackingDisabled ==
    /\ [](~enable_connection_tracking =>
            /\ "connections" \notin DOMAIN connection_manager
            /\ "connection_data" \notin DOMAIN connection_manager
            /\ issued = {}
            /\ \A c \in Conns :
                  /\ connection_id[c] = None
                  /\ get_connection_id(c) = None
                  /\ \A k \in DataKeys : get_connection_data(c, k) = None)
    /\ [][(/\ ~enable_connection_tracking
           /\ \E c \in Conns, k \in DataKeys, v \in DataValues :
                 set_connection_data(c, k, v)) => UNCHANGED vars]_vars
    /\ [][enable_connection_tracking' = enable_connection_tracking]_vars

\* C16, witness: with tracking disabled a session has processed a message
\* and is open, another has ended, and nothing is tracked.
C16_Witness ==
    \E c, d \in Conns :
        /\ ~enable_connection_tracking
        /\ c /= d
        /\ pc[c] = "receiving" /\ last.conn = c /\ last.parsed = "dict"
        /\ pc[d] = "closed" /\ accepted[d]
        /\ get_connection_id(c) = None /\ get_connection_data(c, "k") = None
        /\ get_connection_id(d) = None /\ get_connection_data(d, "k") = None
        /\ issued = {}

\* The session of c was tracked and handle_websocket has returned.
TornDown(c) ==
    /\ enable_connection_tracking
    /\ pc[c] = "closed"
    /\ connection_id[c] /= None

\* C17, as stated: after the teardown of a tracked connection the registry
\* has no entry under its identifier, and neither get_connection_id nor
\* get_connection_data returns anything for the handle.
C17_NothingObtainable ==
    \A c \in Conns :
        TornDown(c) =>
            /\ Untracked(c)
            /\ get_connection_id(c) = None
            /\ \A k \in DataKeys : get_connection_data(c, k) = None

\* C17, amended: after the teardown of a tracked connection the registry has
\* no entry under its identifier and none for the handle, and
\* get_connection_data returns no data for the handle (None for a key, the
\* bag of the identifier being empty); get_connection_id still returns the
\* identifier, which stays on the handle as its attribute connection_id.
C17_RegistryErased ==
    \A c \in Conns :
        TornDown(c) =>
            /\ Untracked(c)
            /\ NotInRegistry(c)
            /\ \A k \in DataKeys : get_connection_data(c, k) = None
            /\ CM_get_connection_data(connection_manager, connection_id[c]) = EmptyDict
            /\ get_connection_id(c) = connection_id[c]
            /\ get_connection_id(c) \in issued

\* C17, witness: a tracked connection is torn down and its handle still
\* gives its identifier, while the other connection's data is in the registry.
C17_Witness ==
    \E c, d \in Conns :
        /\ TornDown(c)
        /\ get_connection_id(c) \in UUIDs
        /\ Untracked(c)
        /\ Tracked(d) /\ get_connection_data(d, "k") = "v1"

\* This step is the add_connection of handle_websocket for the handle c.
AddStep(c) ==
    /\ enable_connection_tracking
    /\ pc[c] = "idle"
    /\ pc'[c] = "receiving"

\* C18: add_connection (uuid4 returning an identifier it has not returned
\* before) succeeds with an identifier that is not in the registry; right
\* after it the identifier maps to the handle, its data bag is empty, the
\* handle maps back to the identifier, and the other entries are as they
\* were. Two live connections never share an identifier.
C18_AddConnection ==
    /\ [][\A c \in Conns :
            AddStep(c) =>
                /\ connection_id'[c] \in UUIDs
                /\ connection_id'[c] \notin DOMAIN connection_manager.connections
                /\ connection_id'[c] \notin DOMAIN connection_manager.connection_data
                /\ DOMAIN connection_manager'.connections =
                      DOMAIN connection_manager.connections \cup {connection_id'[c]}
                /\ DOMAIN connection_manager'.connection_data =
                      DOMAIN connection_manager.connection_data \cup {connection_id'[c]}
                /\ connection_manager'.connections[connection_id'[c]] = c
                /\ connection_manager'.connection_data[connection_id'[c]] = EmptyDict
                /\ get_connection_id(c)' = connection_id'[c]
                /\ \A id \in DOMAIN connection_manager.connections :
                      connection_manager'.connections[id] = connection_manager.connections[id]
                /\ \A id \in DOMAIN connection_manager.connection_data :
                      connection_manager'.connection_data[id] =
                          connection_manager.connection_data[id]]_vars
    /\ [](\A c \in Conns :
            Tracked(c) =>
                /\ connection_id[c] \in DOMAIN connection_manager.connections
                /\ connection_manager.connections[connection_id[c]] = c
                /\ \A d \in Conns \ {c} : Tracked(d) => connection_id[d] /= connection_id[c])

\* C18, witness: two connections are live, each under its own identifier,
\* and the second was added while the first had data stored.
C18_Witness ==
    \E c, d \in Conns :
        /\ c /= d
        /\ Tracked(c) /\ Tracked(d)
        /\ connection_id[c] /= connection_id[d]
        /\ connection_manager.connections[connection_id[c]] = c
        /\ connection_manager.connections[connection_id[d]] = d
        /\ connection_manager.connection_data[connection_id[c]] = [k |-> "v1"]
        /\ connection_manager.connection_data[connection_id[d]] = EmptyDict

\* ---- the ConnectionManager's operations, on every registry reached (Spec)

\* Identifiers a caller can pass: those of uuid4 and one that never was one.
Identifiers == UUIDs \cup {"nonexistent_id"}

\* The entries of the registries cm and r under the identifier id are the same.
SameEntry(cm, r, id) ==
    /\ id \in DOMAIN r.connections <=> id \in DOMAIN cm.connections
    /\ id \in DOMAIN r.connection_data <=> id \in DOMAIN cm.connection_data
    /\ id \in DOMAIN cm.connections => r.connections[id] = cm.connections[id]
    /\ id \in DOMAIN cm.connection_data => r.connection_data[id] = cm.connection_data[id]

\* C19: remove_connection(id) leaves neither an index entry nor a data bag
\* under id, changes nothing when id is unknown or already removed, so that
\* removing twice is removing once, and leaves every other identifier's
\* entries as they were.
C19_RemoveConnection ==
    enable_connection_tracking =>
        \A id \in Identifiers :
            LET r == CM_remove_connection(connection_manager, id) IN
            /\ id \notin DOMAIN r.connections
            /\ id \notin DOMAIN r.connection_data
            /\ (/\ id \notin DOMAIN connection_manager.connections
                /\ id \notin DOMAIN connection_manager.connection_data) =>
                  r = connection_manager
            /\ CM_remove_connection(r, id) = r
            /\ \A other \in Identifiers \ {id} : SameEntry(connection_manager, r, other)

\* C19, witness: the registry holds a connection with data, which a
\* remove_connection of it erases, and an identifier was removed before.
C19_Witness ==
    /\ enable_connection_tracking
    /\ \E id \in issued, other \in DOMAIN connection_manager.connections :
          /\ id \notin DOMAIN connection_manager.connections
          /\ connection_manager.connection_data[other] /= EmptyDict
          /\ CM_remove_connection(connection_manager, id) = connection_manager
          /\ CM_remove_connection(connection_manager, other) = NewConnectionManager

\* C20: for an identifier that is not in the registry, the manager's
\* get_connection_data returns an empty map and its set_connection_data
\* changes nothing: no entry is made and every data bag stays as it is; so a
\* set_connection_data on a handle that is torn down changes nothing.
C20_UnknownIdentifier ==
    /\ [](enable_connection_tracking =>
            \A id \in Identifiers :
                id \notin DOMAIN connection_manager.connection_data =>
                    /\ CM_get_connection_data(connection_manager, id) = EmptyDict
                    /\ \A k \in DataKeys, v \in DataValues :
                          CM_set_connection_data(connection_manager, id, k, v)
                              = connection_manager)
    /\ [][\A c \in Conns :
            (/\ TornDown(c)
             /\ \E k \in DataKeys, v \in DataValues : set_connection_data(c, k, v)) =>
                UNCHANGED vars]_vars

\* C20, witness: a handle is torn down, so that its identifier is unknown to
\* the registry, which holds the data of another connection.
C20_Witness ==
    \E c, d \in Conns :
        /\ TornDown(c)
        /\ connection_id[c] \notin DOMAIN connection_manager.connection_data
        /\ Tracked(d)
        /\ connection_manager.connection_data[connection_id[d]] = [k |-> "v2"]
        /\ CM_set_connection_data(connection_manager, connection_id[c], "k", "v1")
              = connection_manager

\* ---- registration (SpecDispatch)

\* The singleton categories of the registry, and its keyed ones.
Singletons ==
    [INITIALIZE |-> initialize_handler, LIST_TOOLS |-> list_tools_handler,
     LIST_RESOURCES |-> list_resources_handler, LIST_PROMPTS |-> list_prompts_handler,
     FALLBACK |-> fallback_handler, ON_DISCONNECT |-> on_disconnect_handler]

Keyed ==
    [TOOL |-> tool_handlers, RESOURCE |-> resource_handlers,
     PROMPT |-> prompt_handlers, METHOD |-> method_handlers]

\* This step sets singleton category X to handler h and nothing else of the
\* registry.
SingletonReplaced(X, h) ==
    /\ Singletons' = [Singletons EXCEPT ![X] = h]
    /\ Keyed' = Keyed

\* This step sets key K of keyed category T to handler h; every other key of
\* T, every other keyed category and every singleton is as before.
KeyReplaced(T, K, h) ==
    /\ Singletons' = Singletons
    /\ \A t \in DOMAIN Keyed \ {T} : Keyed'[t] = Keyed[t]
    /\ DOMAIN Keyed'[T] = DOMAIN Keyed[T] \cup {K}
    /\ Keyed'[T][K] = h
    /\ \A k \in DOMAIN Keyed[T] \ {K} : Keyed'[T][k] = Keyed[T][k]

FrameTaken(c) ==
    \/ pc'[c] = "handling" /\ (pc[c] /= "handling" \/ running'[c] /= running[c])
    \/ pc[c] /= "handling" /\ last' /= last /\ last'.conn = c

\* In this step the dispatch awaited on c completes: the outcome noted is the
\* one of the message the handler was invoked with.
DispatchCompletes(c) ==
    /\ pc[c] = "handling"
    /\ pc'[c] /= "handling"
    /\ running'[c] = Idle
    /\ last'.conn = c
    /\ last'.message = running[c].message
    /\ last'.handler = running[c].handler

\* C23: within one connection messages are processed strictly in sequence.
\* While a handler is awaited on c, no frame is taken from c and the handler
\* awaited stays the same one until its dispatch (handler call and send
\* included) completes; a frame is taken only at the head of the loop; and
\* every envelope sent carries the id of the message whose dispatch the step
\* belongs to. So handler invocations on c never overlap and the envelopes of
\* the requests with ids leave in the order the requests came in.
C23_Sequential ==
    [][\A c \in Conns :
         /\ pc[c] = "handling" =>
               \/ /\ pc'[c] = "handling"
                  /\ running'[c] = running[c]
                  /\ ~(last' /= last /\ last'.conn = c)
               \/ DispatchCompletes(c)
         /\ FrameTaken(c) => pc[c] = "receiving"
         /\ last' /= last /\ last'.conn = c /\ last'.parsed = "dict" =>
               \A i \in DOMAIN last'.attempts :
                  /\ IsRequest(last'.message)
                  /\ last'.attempts[i].envelope.id = last'.message.id]_vars

\* C23, witness: on one connection the request {id: 7, method: foo} was
\* answered by its handler, and the next message of that connection is now
\* with its handler.
C23_Witness ==
    \E c \in Conns :
       /\ last.conn = c
       /\ last.message = [id |-> "7", method |-> "foo"]
       /\ last.handler = "echo_handler"
       /\ Sent(last) = <<Attempt([id |-> "7", result |-> [echo |-> EmptyDict]], "ok")>>
       /\ pc[c] = "handling"
       /\ running[c].message = [method |-> "foo"]

\* ---- two connections on one router (Spec)

\* In this step the session of connection b moves: it takes a frame, ends a
\* dispatch, or changes its position.
SessionStep(b) == pc'[b] /= pc[b] \/ (last' /= last /\ last'.conn = b)

\* C24: a handler suspended on connection a blocks only a. While it has not
\* completed, every other connection b that is in its message loop is
\* awaiting its next frame (the one condition under which _process_message
\* takes a frame, whatever the frame); every step of
\* b's session (accept, frame, end of its own handler, teardown) leaves the
\* suspended dispatch of a as it is, and a request of b whose dispatch
\* completes is answered by one envelope when the transport takes it.
C24_SlowHandlerBlocksOnlyItsConnection ==
    /\ [](\A a, b \in Conns :
            pc[a] = "handling" /\ a /= b /\ pc[b] = "receiving" => AwaitingFrame(b))
    /\ [][\A a, b \in Conns :
            pc[a] = "handling" /\ a /= b /\ SessionStep(b) =>
               /\ pc'[a] = "handling"
               /\ running'[a] = running[a]
               /\ obs'[a] = obs[a]
               /\ (a \in active_connections') = (a \in active_connections)
               /\ /\ last'.parsed = "dict"
                  /\ last' /= last
                  /\ IsRequest(last'.message)
                  /\ TransportOk(last')
                  => OneAnswer(last')]_vars

\* C24, witness: while the handler of ws1 is still awaited, ws2 has had its
\* request {id: 7, method: foo} answered and has gone through its teardown.
C24_Witness ==
    /\ pc["ws1"] = "handling"
    /\ running["ws1"].handler = "echo_handler"
    /\ pc["ws2"] = "closed"
    /\ accepted["ws2"]
    /\ "ws2" \notin active_connections
    /\ last.conn = "ws2"
    /\ last.message = [id |-> "7", method |-> "foo"]
    /\ Sent(last) = <<Attempt([id |-> "7", result |-> [echo |-> EmptyDict]], "ok")>>

\* ---- the active connection set (Spec)

\* The session of c is between its accept and the end of its teardown.
Open(c) == accepted[c] /\ pc[c] \in {"receiving", "handling", "disconnecting"}

\* C25: a connection handle is in the active connection set exactly from its
\* successful accept until the end of its teardown: it is put in by the
\* accept, never by an accept that fails, taken out by the teardown, and the
\* set is empty once every session has finished; the set has no part in the
\* resolution of a handler (a step that changes the set changes no lookup).
C25_ActiveSet ==
    /\ [](\A c \in Conns : c \in active_connections <=> Open(c))
    /\ []((\A c \in Conns : pc[c] = "closed") => active_connections = {})
    /\ [][\A c \in Conns :
            /\ c \in active_connections' /\ c \notin active_connections =>
                  pc[c] = "idle" /\ pc'[c] = "receiving" /\ accepted'[c]
            /\ c \in active_connections /\ c \notin active_connections' =>
                  pc'[c] = "closed" /\ obs'[c].active_removals = 1
            /\ pc[c] = "idle" /\ pc'[c] /= "idle" /\ ~accepted'[c] =>
                  c \notin active_connections'
            /\ (c \in active_connections') /= (c \in active_connections) =>
                  \A m \in MethodNames :
                     get_handler_for_message([method |-> m])'
                        = get_handler_for_message([method |-> m])]_vars

\* C25, witness: both sessions have finished, ws1 after a successful accept
\* and one removal from the set, ws2 after an accept that failed and that
\* never put it in; the set is empty.
C25_Witness ==
    /\ \A c \in Conns : pc[c] = "closed"
    /\ accepted["ws1"] /\ obs["ws1"].active_removals = 1
    /\ ~accepted["ws2"] /\ obs["ws2"].exit = "accept" /\ obs["ws2"].active_removals = 0
    /\ active_connections = {}

\* ---- the default list handlers (SpecDispatch)

\* The keyed mapping a default list handler enumerates.
ListedMapping(handler) ==
    CASE handler = "_default_list_tools_handler" -> tool_handlers
      [] handler = "_default_list_resources_handler" -> resource_handlers
      [] handler = "_default_list_prompts_handler" -> prompt_handlers

DefaultListHandlers ==
    {"_default_list_tools_handler", "_default_list_resources_handler",
     "_default_list_prompts_handler"}

\* The names in the list an answered request `l` got as its result.
ListedNames(l) ==
    LET items == Sent(l)[1].envelope.result.items
    IN  {items[i].name : i \in DOMAIN items}

\* C26: a request answered by the default list_tools, list_resources or
\* list_prompts handler gets, as its result, a list with exactly one
\* descriptor for every entry the corresponding keyed mapping holds at the
\* time of the call, named by the registered path, and nothing else. The list
\* is a function of the mapping alone: calls between which no registration
\* changes the mapping get the same names, and a registration made after a
\* call shows in the next one.
C26_DefaultListings ==
    [][\A c \in Conns :
         /\ ProcessStep(c)
         /\ last'.handler \in DefaultListHandlers
         /\ IsRequest(last'.message)
         /\ TransportOk(last')
         => /\ OneAnswer(last')
            /\ "result" \in DOMAIN Sent(last')[1].envelope
            /\ Len(Sent(last')[1].envelope.result.items)
                  = Cardinality(DOMAIN ListedMapping(last'.handler))
            /\ ListedNames(last') = DOMAIN ListedMapping(last'.handler)]_vars

\* C26, witness: with the tools "/tools/x" and "foo" registered, a list_tools
\* request was answered with two descriptors, one named after each.
C26_Witness ==
    /\ last.handler = "_default_list_tools_handler"
    /\ IsRequest(last.message)
    /\ TransportOk(last)
    /\ Len(Sent(last)) = 1
    /\ Len(Sent(last)[1].envelope.result.items) = 2
    /\ ListedNames(last) = {"/tools/x", "foo"}
    /\ DOMAIN tool_handlers = {"/tools/x", "foo"}

\* ---- a request without a method name (SpecDispatch)

\* C27: a message with an id (not null) whose method member is missing or is
\* the empty string finds no handler: with no FALLBACK handler and no METHOD
\* registered under the empty name, no handler is invoked and exactly one
\* send_json is made, of {id, error: {code: -32601, message: "Method not
\* found: "}} (the text ends after the colon and the blank).
C27_NoMethodName ==
    [][\A c \in Conns :
         /\ ProcessStep(c)
         /\ IsRequest(StepMessage(c))
         /\ "method" \in DOMAIN StepMessage(c) => StepMessage(c).method = ""
         /\ fallback_handler = None
         /\ "" \notin DOMAIN method_handlers
         => /\ pc'[c] = "receiving"
            /\ running'[c] = Idle
            /\ last'.handler = None
            /\ Len(last'.attempts) = 1
            /\ last'.attempts[1].envelope =
                  [id |-> StepMessage(c).id,
                   error |-> [code |-> -32601,
                              message |-> <<"Method not found: ", "">>]]]_vars

\* C27, witness: {id: 7}, a message without the member method, was answered
\* by the -32601 envelope with the empty method name.
C27_Witness ==
    /\ last.message = [id |-> "7"]
    /\ last.handler = None
    /\ Sent(last) = <<Attempt([id |-> "7",
                               error |-> [code |-> -32601,
                                          message |-> <<"Method not found: ", "">>]],
                              "ok")>>

\* The same for {id: 7, method: ""}.
C27_EmptyNameWitness ==
    /\ last.message = [id |-> "7", method |-> ""]
    /\ last.handler = None
    /\ Sent(last) = <<Attempt([id |-> "7",
                               error |-> [code |-> -32601,
                                          message |-> <<"Method not found: ", "">>]],
                              "ok")>>

\* ---- the client without a connection (SpecClient)

\* The client has no websocket: it never connected, its connect failed, or
\* it has disconnected.
NotConnected == client.websocket = None

\* C28: send_request on a client that is not connected raises RuntimeError
\* ("Not connected to the server") and does nothing else: nothing is sent,
\* message_id stays as it is, and the client stays not connected; disconnect
\* on a client that is not connected returns without any effect.
C28_NotConnected ==
    [][NotConnected =>
         /\ \A m \in ClientMethods, sent \in ClientSendOutcomes :
               send_request(m, sent) =>
                  /\ client'.returned =
                        CallRaises("send_request", "RuntimeError",
                                   <<"Not connected to the server">>)
                  /\ client' = [client EXCEPT !.returned = client'.returned]
                  /\ client'.wire = client.wire
                  /\ client'.message_id = client.message_id
         /\ disconnect =>
               /\ client'.returned = CallReturns("disconnect", [none |-> TRUE], FALSE)
               /\ client' = [client EXCEPT !.returned = client'.returned]
               /\ client'.closed = client.closed]_vars

\* C28, witness: a client that had connected (its initialize request is the
\* one thing it sent) and has disconnected was asked to send a request, and
\* raised RuntimeError with its counter still at 1 and nothing more sent.
C28_Witness ==
    /\ NotConnected
    /\ client.closed = 1
    /\ client.returned = CallRaises("send_request", "RuntimeError",
                                    <<"Not connected to the server">>)
    /\ client.message_id = 1
    /\ Len(client.wire) = 1

\* The same for a client that never connected.
C28_NeverConnectedWitness ==
    /\ NotConnected
    /\ client.closed = 0
    /\ client.returned = CallRaises("send_request", "RuntimeError",
                                    <<"Not connected to the server">>)
    /\ client.message_id = 0
    /\ client.wire = <<>>

\* ---- the order of teardown (Spec)

\* The ON_DISCONNECT handler of c's session is running: awaited, not ended.
InDisconnectHandler(c) == pc[c] = "disconnecting"

\* C29: teardown runs (a) the ON_DISCONNECT handler, then (b) the removal
\* from the registry, then (c) the removal from the active set. Entering
\* the handler changes neither the registry nor the active set; while the
\* handler runs for an accepted connection its handle is in the active set
\* and, with tracking, get_connection_id gives its identifier, the registry
\* has its entry and get_connection_data reads its bag; both removals are
\* made by the step in which the handler ends, by a return or by an
\* exception, and by no step before.
C29_TeardownOrder ==
    /\ [](\A c \in Conns :
            InDisconnectHandler(c) /\ accepted[c] =>
               /\ c \in active_connections
               /\ obs[c].on_disconnect_calls = 1
               /\ obs[c].active_removals = 0
               /\ obs[c].remove_connection_calls = 0
               /\ enable_connection_tracking =>
                     /\ get_connection_id(c) \in UUIDs
                     /\ get_connection_id(c) \in DOMAIN connection_manager.connections
                     /\ connection_manager.connections[get_connection_id(c)] = c
                     /\ \A k \in DataKeys :
                           get_connection_data(c, k) =
                              Get(connection_manager.connection_data[connection_id[c]],
                                  k, None))
    /\ [][\A c \in Conns :
            /\ ~InDisconnectHandler(c) /\ InDisconnectHandler(c)' =>
                  UNCHANGED <<connection_manager, active_connections>>
            /\ accepted[c] /\ c \in active_connections /\ c \notin active_connections' =>
                  /\ obs'[c].on_disconnect_calls = 1
                  /\ obs'[c].on_disconnect \in {"return", "raise"}
                  /\ Untracked(c)'
                  /\ pc'[c] = "closed"
            /\ InDisconnectHandler(c) /\ ~InDisconnectHandler(c)' /\ accepted[c] =>
                  /\ obs'[c].on_disconnect \in {"return", "raise"}
                  /\ obs'[c].active_removals = 1
                  /\ c \notin active_connections'
                  /\ Untracked(c)'
                  /\ enable_connection_tracking => obs'[c].remove_connection_calls = 1]_vars

\* C29, witness: the ON_DISCONNECT handler of a tracked connection is running
\* and reads the value stored under "k"; the handle is in the active set.
C29_Witness ==
    \E c \in Conns :
       /\ InDisconnectHandler(c)
       /\ accepted[c]
       /\ enable_connection_tracking
       /\ c \in active_connections
       /\ get_connection_id(c) \in DOMAIN connection_manager.connections
       /\ get_connection_data(c, "k") = "v1"

\* ---- input that is no message (Spec)

\* This step is _process_message on c taking a frame that is no JSON object:
\* text that is no JSON, or JSON that is a number, a string, an array or null.
UnparsableStep(c) ==
    /\ pc[c] = "receiving"
    /\ last' /= last
    /\ last'.conn = c
    /\ last'.parsed \in {"JSONDecodeError", "not a dict"}

\* C30: every input that cannot be parsed into a message envelope, JSON that
\* is no object as well as text that is no JSON, is answered by the -32700
\* error envelope and leaves the session in its message loop (the transport
\* taking what is sent).
C30_UnparsableYields32700 ==
    [][\A c \in Conns :
         UnparsableStep(c) /\ TransportOk(last') =>
            /\ Sent(last') = <<Attempt(ParseErrorEnvelope, "ok")>>
            /\ pc'[c] = "receiving"]_vars

\* What the code does with JSON that is no object: dispatch_message fails on
\* message.get, its outer except logs that, nothing is sent, and the session
\* stays in its message loop.
C30_NonObjectIsDropped ==
    [][\A c \in Conns :
         UnparsableStep(c) /\ last'.parsed = "not a dict" =>
            /\ last'.attempts = <<>>
            /\ last'.dispatch_error
            /\ pc'[c] = "receiving"]_vars

\* ---- the code -32601 (SpecDispatch)

\* The envelope is the error envelope with this code.
IsError(envelope, code) == "error" \in DOMAIN envelope /\ envelope.error.code = code

\* C31: the -32601 envelope is sent only for messages whose method resolution
\* failed: when a handler (registered or FALLBACK) was invoked for a message,
\* no send_json of that message is a -32601 envelope, whatever the handler
\* returned or raised.
C31_NotFoundOnlyWithoutHandler ==
    (last.parsed = "dict" /\ last.handler /= None) =>
        \A i \in DOMAIN last.attempts : ~IsError(last.attempts[i].envelope, -32601)

\* What the code does: the -32601 envelope is sent for a request when its
\* method resolution failed and also when the handler invoked for it raised
\* ValueError, and in no other case.
C31_NotFoundAlsoForValueError ==
    last.parsed = "dict" =>
        ((\E i \in DOMAIN last.attempts : IsError(last.attempts[i].envelope, -32601))
            <=> (IsRequest(last.message) /\ (last.handler = None \/ last.raised = "ValueError")))

\* ---- what ends the message loop (Spec)

\* In this step the session of c leaves its message loop for its teardown.
LoopLeft(c) ==
    /\ pc[c] \in {"receiving", "handling"}
    /\ pc'[c] \in {"disconnecting", "closed"}

\* C32: processing a received message never ends the message loop, whatever
\* parse, resolution, handler and send end in, a send_json that raises for the
\* -32700 envelope or for a response included: the session leaves its loop
\* only when the stream of websocket.iter_text() ends or raises.
C32_OnlyReceiveEndsLoop ==
    [][\A c \in Conns : LoopLeft(c) => obs'[c].exit = "iter_text"]_vars

\* What the code does: a dispatch never ends the loop, whatever its sends end
\* in; the loop is left from _process_message exactly when the send_json of
\* the -32700 envelope raises, and then the teardown follows at once.
C32_ParseErrorSendEndsLoop ==
    [][\A c \in Conns :
         /\ LoopLeft(c) /\ obs'[c].exit /= "iter_text" =>
               /\ obs'[c].exit = "_process_message"
               /\ last'.conn = c
               /\ last'.parsed = "JSONDecodeError"
               /\ last'.attempts = <<Attempt(ParseErrorEnvelope, "RuntimeError")>>
               /\ obs'[c].on_disconnect_calls = 1
         /\ (/\ pc[c] \in {"receiving", "handling"}
             /\ last' /= last /\ last'.conn = c
             /\ last'.parsed \in {"dict", "not a dict"}) => pc'[c] = "receiving"]_vars

\* ---- the code -32000 (SpecDispatch)

\* The handler invoked for the processed message `l` returned.
HandlerReturned(l) == l.parsed = "dict" /\ l.handler /= None /\ l.raised = None

\* C33: an error envelope with code -32000 is sent for a request only if the
\* handler invocation itself failed: when the handler returned, no send_json
\* of that request is an error envelope, also when the first attempt to send
\* the result raises.
C33_NoErrorAfterSuccess ==
    /\ HandlerReturned(last) =>
          \A i \in DOMAIN last.attempts : "error" \notin DOMAIN last.attempts[i].envelope
    /\ \A i \in DOMAIN last.attempts :
          IsError(last.attempts[i].envelope, -32000) => last.raised /= None

\* What the code does: when the handler returned and the send_json of the
\* result raises, a second send_json follows, of the -32000 envelope with the
\* text of the send's exception; without that failure there is no error
\* envelope after a handler that returned.
C33_ErrorAfterFailedResultSend ==
    (HandlerReturned(last) /\ IsRequest(last.message)) =>
        /\ DOMAIN last.attempts[1].envelope = {"id", "result"}
        /\ last.attempts[1].envelope.id = last.message.id
        /\ IF last.attempts[1].outcome = "ok"
           THEN Len(last.attempts) = 1
           ELSE /\ Len(last.attempts) = 2
                /\ last.attempts[2].envelope =
                      ErrorEnvelope(last.message.id, -32000, <<"Error: ", "send failed">>)

\* ---- the registry and the active set (Spec)

\* The handle c has an identifier in the registry.
InRegistry(c) ==
    \E id \in DOMAIN connection_manager.connections : connection_manager.connections[id] = c

\* C34: with tracking enabled, in every state the two maps of the registry,
\* connections and connection_data, have the same keys, and every identifier
\* in the registry is the one of a handle that is in the active set; a handle
\* that gets its identifier is in the active set by then, and a handle that
\* leaves the active set has lost its identifier by then.
C34_RegistryWithinActiveSet ==
    /\ [](enable_connection_tracking =>
            /\ DOMAIN connection_manager.connections
                  = DOMAIN connection_manager.connection_data
            /\ \A id \in DOMAIN connection_manager.connections :
                  /\ connection_manager.connections[id] \in active_connections
                  /\ connection_id[connection_manager.connections[id]] = id)
    /\ [][enable_connection_tracking =>
            \A c \in Conns :
               /\ ~InRegistry(c) /\ InRegistry(c)' => c \in active_connections'
               /\ c \in active_connections /\ c \notin active_connections' =>
                     ~InRegistry(c)']_vars

\* C34, witness: one tracked connection, with data stored, is in the registry
\* and in the active set while its ON_DISCONNECT handler runs; the other has
\* been torn down and is in neither.
C34_Witness ==
    \E c, d \in Conns :
        /\ enable_connection_tracking
        /\ pc[c] = "disconnecting" /\ accepted[c]
        /\ InRegistry(c) /\ c \in active_connections
        /\ connection_manager.connection_data[connection_id[c]] = [k |-> "v1"]
        /\ pc[d] = "closed" /\ accepted[d]
        /\ ~InRegistry(d) /\ d \notin active_connections
        /\ DOMAIN connection_manager.connections = {connection_id[c]}
        /\ DOMAIN connection_manager.connection_data = {connection_id[c]}

\* ---- the end of a session (Spec)

\* The ON_DISCONNECT handler of c's session has been invoked.
DisconnectInvoked(c) == obs[c].on_disconnect_calls >= 1

\* C35: CLOSED is terminal. Once the ON_DISCONNECT handler of a connection
\* has been invoked, the session is in its teardown or over and stays there:
\* no frame is taken from the connection, no handler is invoked for a message
\* of it, no send_json is made on it, and the ON_DISCONNECT handler is not
\* invoked again; once handle_websocket has returned nothing of the session
\* changes any more.
C35_ClosedIsTerminal ==
    /\ [](\A c \in Conns :
            DisconnectInvoked(c) =>
               /\ pc[c] \in {"disconnecting", "closed"}
               /\ ~AwaitingFrame(c)
               /\ pc[c] = "disconnecting" => running[c].message = DisconnectMessage
               /\ pc[c] = "closed" => running[c] = Idle)
    /\ [][\A c \in Conns :
            DisconnectInvoked(c) =>
               /\ pc'[c] \in {"disconnecting", "closed"}
               /\ ~FrameTaken(c)
               /\ ~(last' /= last /\ last'.conn = c)
               /\ obs'[c].on_disconnect_calls = 1
               /\ pc[c] = "closed" =>
                     /\ pc'[c] = "closed"
                     /\ obs'[c] = obs[c]
                     /\ running'[c] = running[c]
                     /\ c \notin active_connections']_vars

\* C35, witness: one session, which had answered a request, is over with its
\* ON_DISCONNECT handler invoked once, and the other connection has had a
\* message processed since and is in its message loop.
C35_Witness ==
    \E c, d \in Conns :
        /\ pc[c] = "closed" /\ accepted[c]
        /\ obs[c].exit = "iter_text"
        /\ obs[c].on_disconnect_calls = 1
        /\ obs[c].on_disconnect = "return"
        /\ d /= c /\ pc[d] = "receiving"
        /\ last.conn = d /\ last.parsed = "dict"

\* ---- the name on_disconnect (SpecSession)

\* C36: the ON_DISCONNECT handler is invoked by the teardown only. A message
\* with the method on_disconnect is resolved like any other plain name, by
\* the METHOD registered under it, else by FALLBACK, else not at all (a
\* request then gets -32601), whatever the ON_DISCONNECT handler is; its
\* processing does not count as an invocation of the ON_DISCONNECT handler;
\* and the handler has been invoked once for a session that is in or past its
\* teardown and never for another, so that there are as many invocations as
\* sessions torn down.
C36_DisconnectOnlyByTeardown ==
    /\ [](get_handler_for_message(DisconnectMessage) =
             IF "on_disconnect" \in DOMAIN method_handlers
             THEN Resolved(method_handlers["on_disconnect"], "METHOD_CALL")
             ELSE FallbackOrFailure("on_disconnect"))
    /\ [](\A c \in Conns :
            /\ obs[c].on_disconnect_calls =
                  (IF pc[c] \in {"disconnecting", "closed"} THEN 1 ELSE 0)
            /\ pc[c] = "handling" => running[c].msg_type \in {"METHOD_CALL", "UNKNOWN"}
            /\ pc[c] = "disconnecting" <=>
                  /\ running[c].handler \in UserHandlers
                  /\ running[c].msg_type = None
                  /\ running[c].message = DisconnectMessage)
    /\ [][\A c \in Conns :
            /\ pc[c] /= "disconnecting" /\ pc'[c] = "disconnecting" =>
                  /\ pc[c] \in {"idle", "receiving", "handling"}
                  /\ running'[c].handler = on_disconnect_handler
            /\ ProcessStep(c) /\ Get(StepMessage(c), "method", "") = "on_disconnect" =>
               /\ obs'[c].on_disconnect_calls = 0
               /\ pc'[c] \in {"receiving", "handling"}
               /\ IF "on_disconnect" \in DOMAIN method_handlers
                  THEN /\ pc'[c] = "handling"
                       /\ running'[c].handler = method_handlers["on_disconnect"]
                       /\ running'[c].msg_type = "METHOD_CALL"
                  ELSE IF fallback_handler /= None
                  THEN /\ pc'[c] = "handling"
                       /\ running'[c].handler = fallback_handler
                       /\ running'[c].msg_type = "UNKNOWN"
                  ELSE /\ last'.handler = None
                       /\ IsRequest(StepMessage(c)) =>
                             last'.attempts[1].envelope =
                                ErrorEnvelope(StepMessage(c).id, -32601,
                                              <<"Method not found: ", "on_disconnect">>)]_vars

\* C36, witness: with the ON_DISCONNECT handler of a caller registered and no
\* METHOD or FALLBACK, the request {id: 7, method: on_disconnect} was answered
\* by -32601 and no ON_DISCONNECT invocation has been made.
C36_Witness ==
    /\ on_disconnect_handler \in UserHandlers
    /\ last.message = [id |-> "7", method |-> "on_disconnect"]
    /\ last.handler = None
    /\ Sent(last) = <<Attempt(ErrorEnvelope("7", -32601,
                                            <<"Method not found: ", "on_disconnect">>), "ok")>>
    /\ obs["ws1"].on_disconnect_calls = 0
    /\ pc["ws1"] = "receiving"

\* C36, witness of the teardown: the METHOD handler registered under the name
\* on_disconnect answered a request, and the session is over with its
\* ON_DISCONNECT handler, another one, invoked once.
C36_TeardownWitness ==
    /\ last.message = [id |-> "7", method |-> "on_disconnect"]
    /\ last.msg_type = "METHOD_CALL"
    /\ last.handler = "echo_handler"
    /\ on_disconnect_handler = "runtime_error_handler"
    /\ pc["ws1"] = "closed"
    /\ obs["ws1"].on_disconnect_calls = 1
    /\ obs["ws1"].on_disconnect = "raise"

\* ---- the id of a message (SpecSession)

\* C37: the presence of the member id, not its value, tells a request from a
\* notification: a message with the member id, whatever its value (0, the
\* empty string, false and null included), gets one envelope carrying that
\* id, and only a message without the member gets none (the transport taking
\* what is sent).
C37_PresenceDecides ==
    (last.parsed = "dict" /\ TransportOk(last)) =>
        IF "id" \in DOMAIN last.message
        THEN /\ Len(last.attempts) = 1
             /\ "id" \in DOMAIN last.attempts[1].envelope
             /\ last.attempts[1].envelope.id = last.message.id
        ELSE last.attempts = <<>>

\* What the code does: the value decides. A message whose id is 7, 0, the
\* empty string or false gets one envelope with that id; a message whose id
\* is null gets none, like a message without the member.
C37_NullIdIsNotification ==
    (last.parsed = "dict" /\ TransportOk(last)) =>
        IF "id" \in DOMAIN last.message /\ last.message.id /= None
        THEN /\ last.message.id \in {"7", "0", "\"\"", "false"}
             /\ Len(last.attempts) = 1
             /\ "id" \in DOMAIN last.attempts[1].envelope
             /\ last.attempts[1].envelope.id = last.message.id
        ELSE last.attempts = <<>>

\* ---- what connections share (Spec)

\* The registry `r` has for connection d what the registry has now.
SameSession(r, d) ==
    connection_id[d] /= None => SameEntry(connection_manager, r, connection_id[d])

\* In this step the session of c makes a step of its teardown.
TeardownStep(c) ==
    /\ pc[c] /= "closed"
    /\ pc'[c] \in {"disconnecting", "closed"}
    /\ pc'[c] /= pc[c]

\* C38: connections share no mutable session state. With tracking enabled, a
\* step that changes the data bag of a connection is a set_connection_data on
\* that connection's handle, and it changes nothing else: every other bag,
\* every identifier and the active set are as before; and a step of the
\* teardown of one connection leaves the identifier, the registry entry, the
\* data bag and the active-set membership of every other connection that is
\* live as they were, and its session where it was.
C38_NoSharedSessionState ==
    [][enable_connection_tracking =>
         \A c \in Conns :
            /\ (/\ connection_manager' /= connection_manager
                /\ Tracked(c) /\ Tracked(c)'
                /\ ~SameSession(connection_manager', c)) =>
                  /\ \E k \in DataKeys, v \in DataValues : set_connection_data(c, k, v)
                  /\ connection_manager'.connections = connection_manager.connections
                  /\ \A d \in Conns \ {c} : SameSession(connection_manager', d)
            /\ TeardownStep(c) =>
                  \A d \in Conns \ {c} :
                     /\ connection_id'[d] = connection_id[d]
                     /\ SameSession(connection_manager', d)
                     /\ (d \in active_connections') = (d \in active_connections)
                     /\ pc'[d] = pc[d]
                     /\ running'[d] = running[d]
                     /\ obs'[d] = obs[d]
                     /\ \A k \in DataKeys :
                           get_connection_data(d, k)' = get_connection_data(d, k)]_vars

\* C38, witness: both connections are tracked, each with its own value under
\* the same key; one of them is in its teardown, its ON_DISCONNECT handler
\* awaited, while the other is in its message loop.
C38_Witness ==
    \E c, d \in Conns :
        /\ Tracked(c) /\ pc[c] = "disconnecting"
        /\ Tracked(d) /\ pc[d] = "receiving"
        /\ get_connection_data(c, "k") = "v1"
        /\ get_connection_data(d, "k") = "v2"
        /\ {c, d} \subseteq active_connections

\* C38, witness of the teardown: one tracked connection is torn down and the
\* other, live, holds its value and its place in the active set.
C38_TornDownWitness ==
    \E c, d \in Conns :
        /\ TornDown(c) /\ obs[c].on_disconnect = "raise"
        /\ Tracked(d) /\ pc[d] = "receiving"
        /\ get_connection_data(d, "k") = "v2"
        /\ active_connections = {d}
        /\ DOMAIN connection_manager.connections = {connection_id[d]}

\* ---- termination of a session (SpecLive)

\* C39: every session whose try block has been left reaches CLOSED. Once
\* websocket.iter_text() has ended or raised (or accept has raised, or
\* _process_message has), the teardown is completed and handle_websocket
\* returns, every handler awaited ending and no send blocking.
C39_SessionEnds ==
    \A c \in Conns : (obs[c].exit /= None) ~> (pc[c] = "closed")

\* C39, witness: the stream of a session ended, the ON_DISCONNECT handler of
\* a caller was awaited and raised, and handle_websocket has returned.
C39_Witness ==
    \E c \in Conns :
        /\ obs[c].exit = "iter_text"
        /\ obs[c].on_disconnect = "raise"
        /\ on_disconnect_handler = "runtime_error_handler"
        /\ pc[c] = "closed"
        /\ accepted[c]
        /\ c \notin active_connections

\* ---- the client and the router (SpecPair)

\* In this step the client's websocket.recv() returns a frame.
FrameRead ==
    /\ client.awaiting /= None
    /\ client'.awaiting = None
    /\ link'.to_client /= link.to_client

\* C40: with one client that issues its requests one at a time, over a
\* connection that keeps the order of the frames, the frame the client reads
\* after sending request n is the router's envelope for request n. The ids
\* the client sends increase strictly; the router puts on the connection, for
\* the frame it processes, only envelopes with that frame's id; at most one
\* envelope is on its way to the client, the one for the request the client
\* is waiting for; and the frame read has the id of that request, so that no
\* mismatch is logged and the call returns that envelope's result or raises
\* that envelope's error.
C40_ResponseIsForRequest ==
    /\ [](/\ \A i, j \in DOMAIN client.wire : i < j => client.wire[i].id < client.wire[j].id
          /\ Len(link.to_client) <= 1
          /\ \A i \in DOMAIN link.to_client :
                /\ client.awaiting /= None
                /\ link.to_client[i].id = IntText(client.request_id))
    /\ [][/\ link'.to_client /= link.to_client /\ link'.to_client /= <<>> =>
                LET message == IF pc["ws1"] = "handling"
                               THEN running["ws1"].message
                               ELSE json_loads(Head(link.to_server)).data
                    sent == last'.attempts[Len(last'.attempts)]
                IN  /\ link'.to_client = Append(link.to_client, sent.envelope)
                    /\ last'.message = message
                    /\ link'.to_client[Len(link'.to_client)].id = message.id
          /\ FrameRead =>
                LET e == Head(link.to_client)
                    n == client.request_id
                IN  /\ n = client.message_id
                    /\ client.wire[Len(client.wire)].id = n
                    /\ Received(e).envelope.id = n
                    /\ ~client'.returned.warned
                    /\ client'.returned =
                          IF "result" \in DOMAIN e
                          THEN CallReturns(client.awaiting, e.result, FALSE)
                          ELSE CallRaises(client.awaiting, "Exception",
                                          <<"Error ", e.error.code, ": ">> \o e.error.message)]_vars

\* C40, witness: after connect, whose initialize request was number 1, the
\* client has sent request 2 for the tool /tools/x and its call has returned
\* the result of the echo handler, read off the envelope with id 2.
C40_Witness ==
    /\ client.message_id = 2
    /\ Len(client.wire) = 2
    /\ client.wire[1].method = "initialize"
    /\ client.wire[2] = Request(2, "/tools/x", NoParams)
    /\ client.returned = CallReturns("send_request", [echo |-> EmptyDict], FALSE)
    /\ last.message.id = "2"
    /\ last.attempts = <<Attempt(ResultEnvelope("2", [echo |-> EmptyDict]), "ok")>>
    /\ link = NoLink

\* C40, witness of an error: the send of the result of request 2 raised
\* at the router, the -32000 envelope went through, and the client's call
\* raised the error of that envelope.
C40_ErrorWitness ==
    /\ client.message_id = 2
    /\ Len(last.attempts) = 2
    /\ last.attempts[1].outcome = "RuntimeError"
    /\ last.attempts[2].envelope.id = "2"
    /\ client.returned = CallRaises("send_request", "Exception",
                                    <<"Error ", -32000, ": ", "Error: ", "send failed">>)

====
